---- MODULE Spec2Model ----
(***************************************************************************)
(* GLS shipment upload: GLSProcessor (gls_processor.py) drives GLSClient   *)
(* (gls_client.py) and the UploadTracker ledger (upload_tracker.py).       *)
(* One operating-system process at a time owns the ledger directory.       *)
(***************************************************************************)
EXTENDS Integers, Sequences, FiniteSets, TLC

(* ------------------------------ bounds -------------------------------- *)
MaxRows == 4
MaxRuns == 2
MaxCrashes == 1
MaxExtraEntries == 1
MaxCrashRows == 3
MaxFairRows == 3
GLS_MAX_PARCELS_PER_BATCH == 2
MaxLedgerOps == 4
MaxLimit == 3

(* -------------------------- program constants -------------------------- *)
GLS_RETRY_ATTEMPTS == 3

(* the slice error_text[:100] of _parse_add_parcel_response *)
ERROR_TEXT_LIMIT == 100

(* base of the exponential backoff, in seconds *)
GLS_RETRY_DELAY == 2

(* mutant: the same delay after every failed attempt *)
backoff_constant(attempt) == GLS_RETRY_DELAY

(* _execute_with_retry line 76: the delay after failed attempt number attempt *)
backoff(attempt) == GLS_RETRY_DELAY * (2 ^ attempt)

(* mutant: a session is created for every operation *)
get_client_fresh(client, sessions) == sessions + 1

(* GLSClient._get_client with Client(GLS_ENDPOINT) returning: the number of
   sessions created for the client object after the call *)
get_client(client, sessions) == IF client THEN sessions ELSE sessions + 1

FILE_PATH == "dir/lista.xlsx"

Min(a, b) == IF a < b THEN a ELSE b

(* str.upper() on the outcome flags the service is modelled to send *)
Upper(s) == CASE s = "ok" -> "OK"
              [] s = "Ok" -> "OK"
              [] OTHER -> s

(* mutant: the texts are compared as written *)
Lower_as_written(s) == s

(* str.lower() on the row texts of the model *)
Lower(s) == CASE s = "ROSSI SRL" -> "rossi srl"
              [] s = "Rossi Srl" -> "rossi srl"
              [] s = "BIANCHI SPA" -> "bianchi spa"
              [] s = "VIA ROMA 1" -> "via roma 1"
              [] OTHER -> s

(* Path(file_path).stem and Path(file_path).name *)
Stem(path) == CASE path = "dir/lista.xlsx" -> "lista"
                [] path = "dir/lista.xls" -> "lista"
                [] path = "dir/altro.xlsx" -> "altro"
                [] OTHER -> path
Name(path) == CASE path = "dir/lista.xlsx" -> "lista.xlsx"
                [] path = "dir/lista.xls" -> "lista.xls"
                [] path = "dir/altro.xlsx" -> "altro.xlsx"
                [] OTHER -> path

(* ------------------------------ strings -------------------------------- *)
(* s[:n] *)
Prefix(s, n) == IF Len(s) > n THEN SubSeq(s, 1, n) ELSE s

(* str.upper() of one character *)
UpperChar(c) ==
    CASE c = "a" -> "A" [] c = "b" -> "B" [] c = "c" -> "C" [] c = "d" -> "D"
      [] c = "e" -> "E" [] c = "f" -> "F" [] c = "g" -> "G" [] c = "h" -> "H"
      [] c = "i" -> "I" [] c = "j" -> "J" [] c = "k" -> "K" [] c = "l" -> "L"
      [] c = "m" -> "M" [] c = "n" -> "N" [] c = "o" -> "O" [] c = "p" -> "P"
      [] c = "q" -> "Q" [] c = "r" -> "R" [] c = "s" -> "S" [] c = "t" -> "T"
      [] c = "u" -> "U" [] c = "v" -> "V" [] c = "w" -> "W" [] c = "x" -> "X"
      [] c = "y" -> "Y" [] c = "z" -> "Z" [] OTHER -> c

(* str.upper(), character by character *)
RECURSIVE UpperText(_)
UpperText(s) ==
    IF s = "" THEN ""
    ELSE UpperChar(SubSeq(s, 1, 1)) \o UpperText(SubSeq(s, 2, Len(s)))

(* str.strip() of blanks *)
RECURSIVE Strip(_)
Strip(s) ==
    IF s = "" THEN ""
    ELSE IF SubSeq(s, 1, 1) = " " THEN Strip(SubSeq(s, 2, Len(s)))
    ELSE IF SubSeq(s, Len(s), Len(s)) = " " THEN Strip(SubSeq(s, 1, Len(s) - 1))
    ELSE s

(* str.zfill(width) of a text without sign *)
RECURSIVE zfill(_, _)
zfill(s, width) == IF Len(s) >= width THEN s ELSE zfill("0" \o s, width)

(* str.replace(old, "") *)
RECURSIVE Remove(_, _)
Remove(s, old) ==
    IF Len(s) < Len(old) THEN s
    ELSE IF SubSeq(s, 1, Len(old)) = old THEN Remove(SubSeq(s, Len(old) + 1, Len(s)), old)
    ELSE SubSeq(s, 1, 1) \o Remove(SubSeq(s, 2, Len(s)), old)

(* " - ".join(parts) *)
RECURSIVE Join(_)
Join(parts) ==
    IF parts = <<>> THEN ""
    ELSE IF Len(parts) = 1 THEN parts[1]
    ELSE parts[1] \o " - " \o Join(Tail(parts))

(* ---------------------------- input rows ------------------------------- *)
(* _extract_row_data: the field map of one spreadsheet row; the
   progressivo column of row j holds j *)
RowNames == {"ROSSI SRL", ""}

extract_row_data(name, j) ==
    [ragione_sociale |-> name, indirizzo |-> "VIA ROMA 1", cap |-> "00100",
     progressivo |-> ToString(j), citta |-> "ROMA", provincia |-> "RM",
     telefono_cell |-> "", telefono_fisso |-> "", email |-> "", indicazioni |-> ""]

(* the files a run can be given: 1..MaxRows rows, the first of them with
   or without a recipient name *)
Files == UNION {{[j \in 1..n |-> extract_row_data(names[j], j)] :
                    names \in {f \in [1..n -> RowNames] :
                                 \A j \in 2..n : f[j] # ""}} :
                n \in 1..MaxRows}

(* ------------------------------ ledger --------------------------------- *)
EmptyLedger == [uploads |-> [k \in {} |-> 0], history |-> <<>>]

(* the ledger file .gls_uploads.json: absent, holding a complete JSON
   document, or partial (truncated by open(.., "w"), not yet fully written) *)
AbsentFile == [state |-> "absent", data |-> EmptyLedger]
PartialFile == [state |-> "partial", data |-> EmptyLedger]
CompleteFile(data) == [state |-> "complete", data |-> data]

(* a file whose bytes are not UTF-8 text, as one cut inside a character of
   more than one byte (json.dump writes with ensure_ascii=False), and a
   file that open cannot read *)
UndecodableFile == [state |-> "undecodable", data |-> EmptyLedger]
UnreadableFile == [state |-> "unreadable", data |-> EmptyLedger]

generate_row_key(file_path, row_index, row_data) ==
    <<Stem(file_path), row_index,
      <<Lower(row_data.ragione_sociale), Lower(row_data.indirizzo),
        Lower(row_data.cap)>> >>

(* hashlib.md5(text.encode()).hexdigest()[:8] on the key texts of the model *)
md5_8(text) ==
    CASE text = "ROSSI SRL|VIA ROMA 1|00100" -> "d340dfcd"
      [] text = "ROSSI SRL|VIA ROMA 1|20100" -> "da87d5f6"
      [] text = "ROSSI SRL|via roma 1|00100" -> "2e31941c"
      [] text = "ROSSI SRL|via roma 1|20100" -> "4867c015"
      [] text = "rossi srl|VIA ROMA 1|00100" -> "114a1970"
      [] text = "rossi srl|VIA ROMA 1|20100" -> "f3dffac7"
      [] text = "rossi srl|via roma 1|00100" -> "f28e640f"
      [] text = "rossi srl|via roma 1|20100" -> "7da573d2"
      [] text = "Rossi Srl|VIA ROMA 1|00100" -> "40cc0240"
      [] text = "Rossi Srl|VIA ROMA 1|20100" -> "1083b27d"
      [] text = "Rossi Srl|via roma 1|00100" -> "b9715c31"
      [] text = "Rossi Srl|via roma 1|20100" -> "4878365b"
      [] text = "BIANCHI SPA|VIA ROMA 1|00100" -> "b202cbaa"
      [] text = "BIANCHI SPA|VIA ROMA 1|20100" -> "3715f499"
      [] text = "BIANCHI SPA|via roma 1|00100" -> "d412c88d"
      [] text = "BIANCHI SPA|via roma 1|20100" -> "7dbf38a3"
      [] text = "bianchi spa|VIA ROMA 1|00100" -> "e8cf56c9"
      [] text = "bianchi spa|VIA ROMA 1|20100" -> "f92c2a93"
      [] text = "bianchi spa|via roma 1|00100" -> "5e48883a"
      [] text = "bianchi spa|via roma 1|20100" -> "d911af19"

(* _generate_row_key lines 77-80: the key as text, the content of the key
   joined with "|" and hashed *)
key_text(key) ==
    key[1] \o ":" \o ToString(key[2]) \o ":" \o
    md5_8(key[3][1] \o "|" \o key[3][2] \o "|" \o key[3][3])

(* UploadTracker._load: missing or undecodable file gives the empty ledger *)
load(file) == IF file.state = "complete" THEN file.data ELSE EmptyLedger

(* mutant: the lookup key is built from the 1-based row number *)
is_uploaded_wrong_index(data, file_path, row_index, row_data) ==
    generate_row_key(file_path, row_index + 1, row_data) \in DOMAIN data.uploads

is_uploaded(data, file_path, row_index, row_data) ==
    generate_row_key(file_path, row_index, row_data) \in DOMAIN data.uploads

(* the in-memory part of mark_uploaded (lines 115-136) *)
mark_uploaded_data(data, file_path, row_index, row_data, shipment_id, now) ==
    LET key == generate_row_key(file_path, row_index, row_data)
        upload_record == [file |-> Name(file_path), row |-> row_index,
                          shipment_id |-> shipment_id,
                          ragione_sociale |-> row_data.ragione_sociale,
                          uploaded_at |-> now]
    IN [uploads |-> [k \in DOMAIN data.uploads \cup {key} |->
                        IF k = key THEN upload_record ELSE data.uploads[k]],
        history |-> Append(data.history,
                           [key |-> key, action |-> "upload", timestamp |-> now,
                            shipment_id |-> shipment_id])]

(* --------------------------- model types -------------------------------- *)
(* mutant: the outcome flag alone decides *)
is_success_flag_only(response) == Upper(response.esito) = "OK"

(* GLSResponse.is_success *)
is_success(response) ==
    Upper(response.esito) = "OK" /\ response.numero_spedizione # ""

(* GLSUploadResult and its three counters *)
NewResult == [total |-> 0, uploaded |-> 0, skipped |-> 0, failed |-> 0,
              errors |-> <<>>, responses |-> <<>>]

(* mutant: the response is stored but not counted *)
add_success_uncounted(result, response) ==
    [result EXCEPT !.responses = Append(@, response)]

add_success(result, response) ==
    [result EXCEPT !.uploaded = @ + 1, !.responses = Append(@, response)]

add_skip(result, reason) ==
    [result EXCEPT !.skipped = @ + 1,
                   !.errors = IF reason # "" THEN Append(@, <<"SKIP", reason>>) ELSE @]

add_failure(result, error, bda) ==
    [result EXCEPT !.failed = @ + 1, !.errors = Append(@, <<"ERRORE", bda, error>>)]

(* the defaults of process_file for the packages and the weight of a
   parcel; weights and amounts are counted in hundredths *)
DEFAULT_COLLI == 1
DEFAULT_PESO == 300

(* the field limits of GLSParcel.__post_init__ *)
MAX_RAGIONE_SOCIALE == 35
MAX_INDIRIZZO == 35
MAX_NOTE == 40
MAX_PROVINCIA == 2
ZIPCODE_LENGTH == 5

(* mutant: the fields are stored as given *)
GLSParcel_as_given(args) ==
    [ragione_sociale |-> args.ragione_sociale,
     indirizzo |-> args.indirizzo,
     localita |-> args.localita,
     zipcode |-> Prefix(zfill(Strip(args.zipcode), ZIPCODE_LENGTH), ZIPCODE_LENGTH),
     provincia |-> args.provincia,
     note |-> args.note,
     email |-> args.email,
     cellulare |-> args.cellulare,
     bda |-> args.bda,
     colli |-> args.colli,
     peso |-> args.peso,
     contrassegno |-> args.contrassegno,
     importo_assicurato |-> args.importo_assicurato]

(* GLSParcel(...) with __post_init__ *)
GLSParcel(args) ==
    [ragione_sociale |-> Prefix(args.ragione_sociale, MAX_RAGIONE_SOCIALE),
     indirizzo |-> Prefix(args.indirizzo, MAX_INDIRIZZO),
     localita |-> args.localita,
     zipcode |-> Prefix(zfill(Strip(args.zipcode), ZIPCODE_LENGTH), ZIPCODE_LENGTH),
     provincia |-> UpperText(Prefix(args.provincia, MAX_PROVINCIA)),
     note |-> Prefix(args.note, MAX_NOTE),
     email |-> args.email,
     cellulare |-> args.cellulare,
     bda |-> args.bda,
     colli |-> args.colli,
     peso |-> args.peso,
     contrassegno |-> args.contrassegno,
     importo_assicurato |-> args.importo_assicurato]

(* row_data.get("telefono_cell") or row_data.get("telefono_fisso") or "" *)
telefono_of(row_data) ==
    IF row_data.telefono_cell # "" THEN row_data.telefono_cell
    ELSE row_data.telefono_fisso

(* GLSProcessor._build_note *)
build_note(row_data) ==
    LET progressivo == Strip(row_data.progressivo)
        telefono == Strip(Remove(Remove(telefono_of(row_data), "+39"), " "))
        indicazioni == Strip(row_data.indicazioni)
        parts == (IF progressivo # "" THEN <<progressivo>> ELSE <<>>) \o
                 (IF telefono # "" THEN <<telefono>> ELSE <<>>) \o
                 (IF indicazioni # "" THEN <<indicazioni>> ELSE <<>>)
    IN Prefix(Join(parts), MAX_NOTE)

(* mutant: a row without postal code gives no parcel either *)
create_parcel_strict(row_data) ==
    IF row_data.ragione_sociale = "" \/ row_data.indirizzo = "" \/ row_data.cap = ""
    THEN {}
    ELSE {GLSParcel([ragione_sociale |-> row_data.ragione_sociale,
                     indirizzo |-> row_data.indirizzo,
                     localita |-> row_data.citta,
                     zipcode |-> row_data.cap,
                     provincia |-> row_data.provincia,
                     note |-> build_note(row_data),
                     email |-> row_data.email,
                     cellulare |-> telefono_of(row_data),
                     bda |-> row_data.progressivo,
                     colli |-> DEFAULT_COLLI,
                     peso |-> DEFAULT_PESO,
                     contrassegno |-> 0,
                     importo_assicurato |-> 0])}

(* GLSProcessor._create_parcel: the set holding the parcel, empty (None)
   without recipient name or address *)
create_parcel(row_data) ==
    IF row_data.ragione_sociale = "" \/ row_data.indirizzo = ""
    THEN {}
    ELSE {GLSParcel([ragione_sociale |-> row_data.ragione_sociale,
                     indirizzo |-> row_data.indirizzo,
                     localita |-> row_data.citta,
                     zipcode |-> row_data.cap,
                     provincia |-> row_data.provincia,
                     note |-> build_note(row_data),
                     email |-> row_data.email,
                     cellulare |-> telefono_of(row_data),
                     bda |-> row_data.progressivo,
                     colli |-> DEFAULT_COLLI,
                     peso |-> DEFAULT_PESO,
                     contrassegno |-> 0,
                     importo_assicurato |-> 0])}

(* --------------------------- wire responses ----------------------------- *)
(* one <Parcel> element of the AddParcel response document; bda is the set
   holding the text of its <Bda> child, empty when the element has none *)
EntryKinds ==
    {[numero_spedizione |-> "S1", esito |-> "OK", error_message |-> "", bda |-> {}],
     [numero_spedizione |-> "S1", esito |-> "ok", error_message |-> "", bda |-> {}],
     [numero_spedizione |-> "",   esito |-> "OK", error_message |-> "", bda |-> {}],
     [numero_spedizione |-> "S1", esito |-> "KO", error_message |-> "", bda |-> {}]}

(* an accepted parcel, as the service reports it *)
AcceptedEntry ==
    [numero_spedizione |-> "S1", esito |-> "OK", error_message |-> "", bda |-> {}]

(* the value the remote AddParcel call returns: text says it is a str or
   bytes object, wellformed that etree.fromstring parses it, root_text is
   the text of the root element, entries its <Parcel> elements *)
Document(text, wellformed, root_text, entries) ==
    [text |-> text, wellformed |-> wellformed, root_text |-> root_text,
     entries |-> entries]

(* the documents the service can answer a request of n parcels with: a value
   that is no text, a text that is not well-formed, or a well-formed one
   with 0..n entries of any kind, or with every parcel accepted and up to
   MaxExtraEntries entries more *)
Documents(n) ==
    {Document(FALSE, FALSE, "", <<>>), Document(TRUE, FALSE, "", <<>>)} \cup
    {Document(TRUE, TRUE, "", e) :
        e \in UNION {[1..m -> EntryKinds] : m \in 0..n}} \cup
    {Document(TRUE, TRUE, "", [j \in 1..(n + x) |-> AcceptedEntry]) :
        x \in 1..MaxExtraEntries}

(* etree.tostring(root, encoding="unicode") of a root without entries *)
tostring(doc) ==
    IF doc.root_text = "" THEN "<Info/>" ELSE "<Info>" \o doc.root_text \o "</Info>"

(* mutant: the text is not cut *)
Truncate_none(s) == s

(* error_text[:100] *)
Truncate(s) == SubSeq(s, 1, Min(ERROR_TEXT_LIMIT, Len(s)))

(* etree.fromstring at line 169 raises something other than XMLSyntaxError
   (ValueError: can only parse strings) *)
parse_raises(doc) == ~doc.text

(* mutant: the reference is taken from the entry alone *)
parse_no_backfill(doc, parcels) ==
    IF ~doc.wellformed
    THEN [j \in 1..Len(parcels) |->
            [numero_spedizione |-> "", esito |-> "KO",
             error_message |-> "XML non valido", bda |-> parcels[j].bda]]
    ELSE IF Len(doc.entries) = 0
    THEN LET error_text == IF doc.root_text # "" THEN doc.root_text ELSE tostring(doc)
         IN [j \in 1..Len(parcels) |->
               [numero_spedizione |-> "", esito |-> "KO",
                error_message |-> "Risposta non parsabile: " \o Truncate(error_text),
                bda |-> parcels[j].bda]]
    ELSE [j \in 1..Len(doc.entries) |->
            [numero_spedizione |-> doc.entries[j].numero_spedizione,
             esito |-> doc.entries[j].esito,
             error_message |-> doc.entries[j].error_message,
             bda |-> IF doc.entries[j].bda # {}
                     THEN CHOOSE b \in doc.entries[j].bda : TRUE
                     ELSE ""]]

(* GLSClient._parse_add_parcel_response, for a value it does not raise on *)
parse_add_parcel_response(doc, parcels) ==
    IF ~doc.wellformed
    THEN [j \in 1..Len(parcels) |->
            [numero_spedizione |-> "", esito |-> "KO",
             error_message |-> "XML non valido", bda |-> parcels[j].bda]]
    ELSE IF Len(doc.entries) = 0
    THEN LET error_text == IF doc.root_text # "" THEN doc.root_text ELSE tostring(doc)
         IN [j \in 1..Len(parcels) |->
               [numero_spedizione |-> "", esito |-> "KO",
                error_message |-> "Risposta non parsabile: " \o Truncate(error_text),
                bda |-> parcels[j].bda]]
    ELSE [j \in 1..Len(doc.entries) |->
            [numero_spedizione |-> doc.entries[j].numero_spedizione,
             esito |-> doc.entries[j].esito,
             error_message |-> doc.entries[j].error_message,
             bda |-> IF doc.entries[j].bda # {}
                     THEN CHOOSE b \in doc.entries[j].bda : TRUE
                     ELSE IF j <= Len(parcels) THEN parcels[j].bda ELSE ""]]

(* the document the remote CloseWorkDay call returns *)
CloseDocuments ==
    {[wellformed |-> FALSE, esito |-> "", errore |-> ""],
     [wellformed |-> TRUE, esito |-> "OK", errore |-> ""],
     [wellformed |-> TRUE, esito |-> "ok", errore |-> ""],
     [wellformed |-> TRUE, esito |-> "KO", errore |-> "Giornata non chiudibile"]}

(* GLSClient._parse_close_work_day_response *)
parse_close_work_day_response(doc) ==
    IF doc.wellformed
    THEN [success |-> Upper(doc.esito) = "OK", esito |-> doc.esito, error |-> doc.errore]
    ELSE [success |-> FALSE, esito |-> "KO", error |-> "Errore parsing risposta"]

(* ------------------------------- state ---------------------------------- *)
VARIABLES
    rows,            \* the rows of the spreadsheet file (pd.read_excel)
    disk,            \* the ledger file of the directory
    pc,              \* position of the process: dead, idle, batch, attempt,
                     \* reconcile, save, finalize, close_attempt, done,
                     \* raised; parsed in the parser's own specification;
                     \* init_error, call, client_error in the client's;
                     \* built in the parcel's; ledger in the tracker's
    skip_uploaded,   \* GLSProcessor.skip_uploaded
    client,          \* GLSClient._client is not None
    tracker,         \* GLSProcessor._tracker: loaded, and UploadTracker._data
    result,          \* the GLSUploadResult of the run
    parcels,         \* parcels_to_upload
    row_indices,     \* row_indices: <<idx, row_data>>
    batch_start,     \* loop variable of _upload_batches
    processed,       \* processed of _upload_batches
    attempt,         \* loop variable of _execute_with_retry
    responses,       \* responses of the batch being reconciled
    i,               \* index of enumerate(responses)
    now,             \* datetime.now(), one tick per run
    crashes,         \* number of process kills so far
    created,         \* keys whose parcel the remote service has created
    crashedSuccess,  \* keys that round-tripped as successful in a killed run
    succeeded,       \* keys counted Uploaded by an earlier run
    calls,           \* the add_parcels calls of the run: rows and outcome
    written,         \* keys the run has passed to mark_uploaded
    close_workday,   \* argument close_workday of process_file
    close_calls,     \* number of close_work_day calls of the run
    received,        \* result of add_parcels line 118: the set holding the
                     \* value the remote call returned for the batch in hand
    gls_processing,  \* ValidatorGUI.gls_processing: upload session running
                     \* and not stopped
    credentials,     \* the GLSCredentials the processor is constructed with
    parcel_args,     \* the set holding the arguments of the GLSParcel built
    ledger_op,       \* the last operation called on the UploadTracker, its
                     \* file argument and the number of operations so far
    other,           \* a second UploadTracker opened on the same directory
    returned,        \* the last direct call of a method: name, arguments, value
    sleeps,          \* the delays time.sleep was called with in the operation
                     \* in hand of _execute_with_retry
    sessions,        \* number of times Client(GLS_ENDPOINT) returned a session
                     \* to the client object
    reports          \* the counts passed to progress_callback in the run

vars == <<rows, disk, pc, skip_uploaded, client, tracker, result, parcels,
          row_indices, batch_start, processed, attempt, responses, i, now,
          crashes, created, crashedSuccess, succeeded, calls, written,
          close_workday, close_calls, received, gls_processing, credentials,
          parcel_args, ledger_op, other, returned, sleeps, sessions, reports>>

runVars == <<result, parcels, row_indices, batch_start, processed, reports,
             attempt, sleeps,
             responses, i, calls, written, close_workday, close_calls, received>>

(* GLSCredentials: the four fields *)
GLSCredentials(sede, codice_cliente, password, codice_contratto) ==
    [sede |-> sede, codice_cliente |-> codice_cliente, password |-> password,
     codice_contratto |-> codice_contratto]

(* mutant: one field is enough *)
is_valid_any(c) ==
    c.sede # "" \/ c.codice_cliente # "" \/ c.password # "" \/ c.codice_contratto # ""

(* GLSCredentials.is_valid *)
is_valid(c) ==
    c.sede # "" /\ c.codice_cliente # "" /\ c.password # "" /\ c.codice_contratto # ""

(* the state before any process has started: no processor *)
Boot ==
    /\ pc = "dead"
    /\ skip_uploaded = TRUE
    /\ client = FALSE
    /\ tracker = [loaded |-> FALSE, data |-> EmptyLedger]
    /\ result = NewResult
    /\ parcels = <<>>
    /\ row_indices = <<>>
    /\ batch_start = 0
    /\ processed = 0
    /\ attempt = 0
    /\ responses = <<>>
    /\ i = 0
    /\ now = 0
    /\ crashes = 0
    /\ created = {}
    /\ crashedSuccess = {}
    /\ succeeded = {}
    /\ calls = <<>>
    /\ written = {}
    /\ close_workday = FALSE
    /\ close_calls = 0
    /\ received = {}
    /\ gls_processing = FALSE
    /\ parcel_args = {}
    /\ ledger_op = [op |-> "none", file |-> "", n |-> 0]
    /\ other = [loaded |-> FALSE, data |-> EmptyLedger]
    /\ returned = [call |-> "none"]
    /\ sleeps = <<>>
    /\ sessions = 0
    /\ reports = <<>>

Init ==
    /\ rows \in Files
    /\ credentials = GLSCredentials("R1", "12345", "secret", "77")
    /\ disk = AbsentFile
    /\ Boot

KeyOf(entry) == generate_row_key(FILE_PATH, entry[1], entry[2])

(* the run-local variables as process_file finds them *)
ResetRun ==
    /\ result' = NewResult
    /\ parcels' = <<>>
    /\ row_indices' = <<>>
    /\ batch_start' = 0
    /\ processed' = 0
    /\ reports' = <<>>
    /\ attempt' = 0 /\ sleeps' = <<>>
    /\ responses' = <<>>
    /\ i' = 0
    /\ calls' = <<>>
    /\ written' = {}
    /\ close_workday' = FALSE
    /\ close_calls' = 0
    /\ received' = {}

(* GLSProcessor.__init__ and GLSClient.__init__ in a fresh process *)
NewProcessor(skip) ==
    /\ pc = "dead"
    /\ IF is_valid(credentials)
       THEN /\ pc' = "idle"
            /\ skip_uploaded' = skip
            /\ gls_processing' = TRUE
            /\ client' = FALSE /\ sessions' = 0
            /\ tracker' = [loaded |-> FALSE, data |-> EmptyLedger]
       ELSE /\ pc' = "init_error"
            /\ UNCHANGED <<skip_uploaded, gls_processing, client, sessions, tracker>>
    /\ UNCHANGED <<rows, other, returned, credentials, parcel_args, ledger_op, disk, runVars, now, crashes, created, crashedSuccess, succeeded>>

(* the process ends after a run returned or raised *)
Exit ==
    /\ pc \in {"idle", "done", "raised"}
    /\ pc' = "dead"
    /\ client' = FALSE /\ sessions' = 0
    /\ tracker' = [loaded |-> FALSE, data |-> EmptyLedger]
    /\ skip_uploaded' = TRUE
    /\ gls_processing' = FALSE
    /\ succeeded' = succeeded \cup written
    /\ ResetRun
    /\ UNCHANGED <<rows, other, returned, credentials, parcel_args, ledger_op, disk, now, crashes, created, crashedSuccess>>

(* mutant: a row found in the ledger is counted Skipped and submitted too *)
RECURSIVE prepare_submit_skipped(_, _, _, _, _)
prepare_submit_skipped(acc, data, skip, df, j) ==
    IF j > Len(df) THEN acc
    ELSE LET idx == j - 1
             row_data == df[j]
             parcel == create_parcel(row_data)
             res == IF skip /\ is_uploaded(data, FILE_PATH, idx, row_data)
                    THEN add_skip(acc[1], ToString(idx)) ELSE acc[1]
         IN IF parcel # {}
            THEN prepare_submit_skipped(
                     <<res, Append(acc[2], CHOOSE p \in parcel : TRUE),
                       Append(acc[3], <<idx, row_data>>)>>, data, skip, df, j + 1)
            ELSE prepare_submit_skipped(
                     <<add_failure(res, "Dati insufficienti", ToString(idx)),
                       acc[2], acc[3]>>, data, skip, df, j + 1)

(* process_file lines 130-144: the dedup filter and the parcel build, row
   by row; acc is <<result, parcels_to_upload, row_indices>> *)
RECURSIVE prepare(_, _, _, _, _)
prepare(acc, data, skip, df, j) ==
    IF j > Len(df) THEN acc
    ELSE LET idx == j - 1
             row_data == df[j]
             parcel == create_parcel(row_data)
         IN IF skip /\ is_uploaded(data, FILE_PATH, idx, row_data)
            THEN prepare(<<add_skip(acc[1], ToString(idx)), acc[2], acc[3]>>,
                         data, skip, df, j + 1)
            ELSE IF parcel # {}
            THEN prepare(<<acc[1], Append(acc[2], CHOOSE p \in parcel : TRUE),
                           Append(acc[3], <<idx, row_data>>)>>,
                         data, skip, df, j + 1)
            ELSE prepare(<<add_failure(acc[1], "Dati insufficienti", ToString(idx)),
                           acc[2], acc[3]>>,
                         data, skip, df, j + 1)

(* process_file lines 108-155: open the ledger of the folder (_get_tracker),
   read the file, filter and build, then enter _upload_batches; the caller
   starts no file once the session is stopped (gui.py lines 669-671) *)
process_file ==
    /\ pc \in {"idle", "done", "raised"}
    /\ gls_processing
    /\ now < MaxRuns
    /\ now' = now + 1
    /\ LET data == IF tracker.loaded THEN tracker.data ELSE load(disk)
           acc == prepare(<<[NewResult EXCEPT !.total = Len(rows)], <<>>, <<>>>>,
                          data, skip_uploaded, rows, 1)
       IN /\ tracker' = [loaded |-> TRUE, data |-> data]
          /\ result' = acc[1]
          /\ parcels' = acc[2]
          /\ row_indices' = acc[3]
          /\ pc' = IF acc[2] # <<>> THEN "batch" ELSE "finalize"
          /\ reports' = IF acc[2] # <<>> THEN <<0, acc[1].skipped>> ELSE <<0>>
    /\ batch_start' = 0
    /\ processed' = 0
    /\ attempt' = 0 /\ sleeps' = <<>>
    /\ responses' = <<>>
    /\ i' = 0
    /\ calls' = <<>>
    /\ written' = {}
    /\ close_calls' = 0
    /\ received' = {}
    /\ \E requested \in BOOLEAN : close_workday' = requested
    /\ succeeded' = succeeded \cup written
    /\ UNCHANGED <<rows, other, returned, credentials, parcel_args, ledger_op, gls_processing, disk, skip_uploaded, client, sessions, crashes, created, crashedSuccess>>

(* mutant: the slice of a group is one parcel too long *)
batch_end_off_by_one ==
    Min(batch_start + GLS_MAX_PARCELS_PER_BATCH + 1, Len(parcels))

(* _upload_batches lines 293-295 *)
batch_end == Min(batch_start + GLS_MAX_PARCELS_PER_BATCH, Len(parcels))
batch == SubSeq(parcels, batch_start + 1, batch_end)
batch_indices == SubSeq(row_indices, batch_start + 1, batch_end)

BatchKeys == {KeyOf(batch_indices[j]) : j \in 1..Len(batch_indices)}

(* the for loop of _upload_batches moves to the next group, or returns to
   process_file line 157 *)
(* mutant: the next group starts one parcel too far *)
NextGroup_skip ==
    /\ processed' = processed + Len(batch)
    /\ reports' = IF batch_start + GLS_MAX_PARCELS_PER_BATCH + 1 < Len(parcels)
                  THEN Append(reports, processed + Len(batch) + result.skipped)
                  ELSE reports
    /\ batch_start' = batch_start + GLS_MAX_PARCELS_PER_BATCH + 1
    /\ pc' = IF batch_start + GLS_MAX_PARCELS_PER_BATCH + 1 < Len(parcels)
             THEN "batch" ELSE "finalize"
    /\ attempt' = 0 /\ sleeps' = <<>>
    /\ responses' = <<>>
    /\ i' = 0
    /\ received' = {}

(* _upload_batches line 303: the loop variable moves to the next slice *)
NextGroup ==
    /\ processed' = processed + Len(batch)
    /\ reports' = IF batch_start + GLS_MAX_PARCELS_PER_BATCH < Len(parcels)
                  THEN Append(reports, processed + Len(batch) + result.skipped)
                  ELSE reports
    /\ batch_start' = batch_start + GLS_MAX_PARCELS_PER_BATCH
    /\ pc' = IF batch_start + GLS_MAX_PARCELS_PER_BATCH < Len(parcels)
             THEN "batch" ELSE "finalize"
    /\ attempt' = 0 /\ sleeps' = <<>>
    /\ responses' = <<>>
    /\ i' = 0
    /\ received' = {}

(* _upload_batches lines 326-330: every row of the group fails with str(e) *)
RECURSIVE fail_all(_, _, _, _)
fail_all(res, text, indices, j) ==
    IF j > Len(indices) THEN res
    ELSE fail_all(add_failure(res, text, ToString(indices[j][1])), text, indices, j + 1)

(* the log of add_parcels calls: a call is entered when add_parcels is
   called and closed with its outcome, "returned" or the error text *)
CallsWith(outcome) ==
    IF pc = "batch"
    THEN Append(calls, [rows |-> batch_indices, outcome |-> outcome])
    ELSE [calls EXCEPT ![Len(calls)].outcome = outcome]

(* mutant: a failed group ends the loop *)
GroupFail_abort(text) ==
    /\ result' = fail_all(result, text, batch_indices, 1)
    /\ calls' = CallsWith(text)
    /\ processed' = processed + Len(batch)
    /\ reports' = reports
    /\ batch_start' = batch_start + GLS_MAX_PARCELS_PER_BATCH
    /\ pc' = "finalize"
    /\ attempt' = 0 /\ sleeps' = <<>>
    /\ responses' = <<>>
    /\ i' = 0
    /\ received' = {}

GroupFail(text) ==
    /\ result' = fail_all(result, text, batch_indices, 1)
    /\ calls' = CallsWith(text)
    /\ NextGroup

(* add_parcels up to the first remote attempt: size check, _get_client
   finds or creates the session *)
Submit ==
    /\ pc = "batch"
    /\ IF Len(batch) > GLS_MAX_PARCELS_PER_BATCH
       THEN /\ GroupFail("Massimo spedizioni per batch")
            /\ UNCHANGED <<client, sessions>>
       ELSE /\ calls' = CallsWith("pending")
            /\ client' = TRUE /\ sessions' = get_client(client, sessions)
            /\ pc' = "attempt"
            /\ attempt' = 0 /\ sleeps' = <<>>
            /\ UNCHANGED <<result, batch_start, processed, reports, responses, i, received>>
    /\ UNCHANGED <<rows, other, returned, credentials, parcel_args, ledger_op, gls_processing, close_workday, close_calls, disk, skip_uploaded, tracker, parcels, row_indices, now,
                   crashes, created, crashedSuccess, succeeded, written>>

(* _get_client lines 47-51: Client(GLS_ENDPOINT) raises *)
ConnectFail ==
    /\ pc = "batch"
    /\ ~client
    /\ Len(batch) <= GLS_MAX_PARCELS_PER_BATCH
    /\ GroupFail("Impossibile connettersi a GLS")
    /\ UNCHANGED <<rows, other, returned, credentials, parcel_args, ledger_op, gls_processing, close_workday, close_calls, disk, skip_uploaded, client, sessions, tracker, parcels, row_indices,
                   now, crashes, created, crashedSuccess, succeeded, written>>

(* the service creates the parcels its answer reports as created *)
CreatedBy(doc) ==
    {KeyOf(batch_indices[j]) : j \in {k \in 1..Min(Len(batch), Len(doc.entries)) :
                                        is_success(doc.entries[k])}}

(* _execute_with_retry line 72 returns, add_parcels line 128 parses; an
   exception of the parser that is no XMLSyntaxError leaves add_parcels,
   _upload_batches and process_file *)
RemoteReturn ==
    /\ pc = "attempt"
    /\ \E doc \in Documents(Len(batch)) :
          /\ created' = created \cup CreatedBy(doc)
          /\ received' = {doc}
          /\ IF parse_raises(doc)
             THEN /\ responses' = <<>>
                  /\ calls' = CallsWith("ValueError")
                  /\ pc' = "raised"
             ELSE /\ responses' = parse_add_parcel_response(doc, batch)
                  /\ calls' = CallsWith("returned")
                  /\ pc' = "reconcile"
    /\ i' = 0
    /\ UNCHANGED <<rows, other, returned, credentials, parcel_args, ledger_op, gls_processing, close_workday, close_calls, disk, skip_uploaded, client, sessions, tracker, result, parcels,
                   row_indices, batch_start, processed, reports, attempt, sleeps, now, crashes,
                   crashedSuccess, succeeded, written>>

(* mutant: one attempt more than the budget *)
RemoteFaultRetry_extra ==
    /\ pc = "attempt"
    /\ attempt < GLS_RETRY_ATTEMPTS
    /\ \E served \in BOOLEAN :
          created' = IF served THEN created \cup BatchKeys ELSE created
    /\ attempt' = attempt + 1 /\ sleeps' = Append(sleeps, backoff(attempt))
    /\ UNCHANGED <<rows, other, returned, credentials, parcel_args, ledger_op, gls_processing, close_workday, close_calls, received, disk,
                   pc, skip_uploaded, client, sessions, tracker, result, parcels, row_indices,
                   batch_start, processed, reports, responses, i, now, crashes,
                   crashedSuccess, succeeded, calls, written>>

(* lines 73-78: Fault or TransportError with attempts left; the service may
   have served the request before the fault reached the client *)
RemoteFaultRetry ==
    /\ pc = "attempt"
    /\ attempt < GLS_RETRY_ATTEMPTS - 1
    /\ \E served \in BOOLEAN :
          created' = IF served THEN created \cup BatchKeys ELSE created
    /\ attempt' = attempt + 1 /\ sleeps' = Append(sleeps, backoff(attempt))
    /\ UNCHANGED <<rows, other, returned, credentials, parcel_args, ledger_op, gls_processing, close_workday, close_calls, received, disk, pc, skip_uploaded, client, sessions, tracker, result, parcels,
                   row_indices, batch_start, processed, reports, responses, i, now, crashes,
                   crashedSuccess, succeeded, calls, written>>

(* lines 73-82: Fault or TransportError on the last attempt *)
RemoteFaultExhausted ==
    /\ pc = "attempt"
    /\ attempt = GLS_RETRY_ATTEMPTS - 1
    /\ \E served \in BOOLEAN :
          created' = IF served THEN created \cup BatchKeys ELSE created
    /\ GroupFail("Fallito dopo tentativi")
    /\ UNCHANGED <<rows, other, returned, credentials, parcel_args, ledger_op, gls_processing, close_workday, close_calls, disk, skip_uploaded, client, sessions, tracker, parcels, row_indices,
                   now, crashes, crashedSuccess, succeeded, written>>

(* lines 79-80: any other exception ends the operation at once *)
RemoteError ==
    /\ pc = "attempt"
    /\ GroupFail("Errore imprevisto")
    /\ UNCHANGED <<rows, other, returned, credentials, parcel_args, ledger_op, gls_processing, close_workday, close_calls, disk, skip_uploaded, client, sessions, tracker, parcels, row_indices,
                   now, crashes, created, crashedSuccess, succeeded, written>>

(* _upload_batches line 307 with more responses than rows: IndexError *)
ReconcileIndexError ==
    /\ pc = "reconcile"
    /\ i < Len(responses)
    /\ i >= Len(batch_indices)
    /\ pc' = "raised"
    /\ UNCHANGED <<rows, other, returned, credentials, parcel_args, ledger_op, gls_processing, close_workday, close_calls, received, disk, skip_uploaded, client, sessions, tracker, result, parcels,
                   row_indices, batch_start, processed, reports, attempt, sleeps, responses, i, now,
                   crashes, created, crashedSuccess, succeeded, calls, written>>

(* lines 309-317: add_success, then mark_uploaded up to open(.., "w") of
   _save, which truncates the ledger file *)
ReconcileSuccess ==
    /\ pc = "reconcile"
    /\ i < Len(responses)
    /\ i < Len(batch_indices)
    /\ is_success(responses[i + 1])
    /\ result' = add_success(result, responses[i + 1])
    /\ tracker' = [tracker EXCEPT !.data =
                      mark_uploaded_data(@, FILE_PATH, batch_indices[i + 1][1],
                                         batch_indices[i + 1][2],
                                         responses[i + 1].numero_spedizione, now)]
    /\ written' = written \cup {KeyOf(batch_indices[i + 1])}
    /\ disk' = PartialFile
    /\ pc' = "save"
    /\ UNCHANGED <<rows, other, returned, credentials, parcel_args, ledger_op, gls_processing, close_workday, close_calls, received, skip_uploaded, client, sessions, parcels, row_indices, batch_start,
                   processed, reports, attempt, sleeps, responses, i, now, crashes, created,
                   crashedSuccess, succeeded, calls>>

(* mutant: the write of the file is left for later *)
SaveComplete_deferred ==
    /\ pc = "save"
    /\ pc' = "reconcile"
    /\ i' = i + 1
    /\ UNCHANGED <<rows, other, returned, credentials, parcel_args, ledger_op, gls_processing, close_workday, close_calls, received, disk,
                   skip_uploaded, client, sessions, tracker, result, parcels, row_indices,
                   batch_start, processed, reports, attempt, sleeps, responses, now, crashes, created,
                   crashedSuccess, succeeded, calls, written>>

(* _save lines 47-48: json.dump and close complete the file *)
SaveComplete ==
    /\ pc = "save"
    /\ disk' = CompleteFile(tracker.data)
    /\ pc' = "reconcile"
    /\ i' = i + 1
    /\ UNCHANGED <<rows, other, returned, credentials, parcel_args, ledger_op, gls_processing, close_workday, close_calls, received, skip_uploaded, client, sessions, tracker, result, parcels, row_indices,
                   batch_start, processed, reports, attempt, sleeps, responses, now, crashes, created,
                   crashedSuccess, succeeded, calls, written>>

(* mutant: a rejected parcel raises out of the loop *)
ReconcileFailure_abort ==
    /\ pc = "reconcile"
    /\ i < Len(responses)
    /\ i < Len(batch_indices)
    /\ ~is_success(responses[i + 1])
    /\ pc' = "raised"
    /\ UNCHANGED <<rows, other, returned, credentials, parcel_args, ledger_op, gls_processing, close_workday, close_calls, received, disk, skip_uploaded, client, sessions, tracker, result, parcels,
                   row_indices, batch_start, processed, reports, attempt, sleeps, responses, i, now,
                   crashes, created, crashedSuccess, succeeded, calls, written>>

(* lines 318-322 *)
ReconcileFailure ==
    /\ pc = "reconcile"
    /\ i < Len(responses)
    /\ i < Len(batch_indices)
    /\ ~is_success(responses[i + 1])
    /\ result' = add_failure(result,
                             IF responses[i + 1].error_message # ""
                             THEN responses[i + 1].error_message
                             ELSE "Errore sconosciuto",
                             responses[i + 1].bda)
    /\ i' = i + 1
    /\ UNCHANGED <<rows, other, returned, credentials, parcel_args, ledger_op, gls_processing, close_workday, close_calls, received, disk, pc, skip_uploaded, client, sessions, tracker, parcels,
                   row_indices, batch_start, processed, reports, attempt, sleeps, responses, now,
                   crashes, created, crashedSuccess, succeeded, calls, written>>

(* line 324: the responses are exhausted *)
BatchDone ==
    /\ pc = "reconcile"
    /\ i = Len(responses)
    /\ NextGroup
    /\ UNCHANGED <<rows, other, returned, credentials, parcel_args, ledger_op, gls_processing, close_workday, close_calls, disk, skip_uploaded, client, sessions, tracker, result, parcels,
                   row_indices, now, crashes, created, crashedSuccess, succeeded,
                   calls, written>>

(* mutant: the working day is closed whenever it was requested *)
Finalize_always ==
    /\ pc = "finalize"
    /\ IF close_workday
       THEN /\ pc' = "close_attempt"
            /\ close_calls' = close_calls + 1
       ELSE /\ pc' = "done"
            /\ UNCHANGED close_calls
    /\ attempt' = 0 /\ sleeps' = <<>>
    /\ reports' = Append(reports, result.total)
    /\ UNCHANGED <<rows, other, returned, credentials, parcel_args, ledger_op, gls_processing, close_workday, received, disk, skip_uploaded,
                   client, sessions, tracker, result, parcels, row_indices, batch_start,
                   processed, responses, i, now, crashes, created, crashedSuccess,
                   succeeded, calls, written>>

(* process_file lines 157-161: close the working day if requested and
   something was uploaded, else return the result; the SOAP session exists,
   a parcel having been uploaded through it *)
Finalize ==
    /\ pc = "finalize"
    /\ IF close_workday /\ result.uploaded > 0
       THEN /\ pc' = "close_attempt"
            /\ close_calls' = close_calls + 1
       ELSE /\ pc' = "done"
            /\ UNCHANGED close_calls
    /\ attempt' = 0 /\ sleeps' = <<>>
    /\ reports' = Append(reports, result.total)
    /\ UNCHANGED <<rows, other, returned, credentials, parcel_args, ledger_op, gls_processing, close_workday, received, disk, skip_uploaded,
                   client, sessions, tracker, result, parcels, row_indices, batch_start,
                   processed, responses, i, now, crashes, created, crashedSuccess,
                   succeeded, calls, written>>

(* what a step of close_work_day leaves unchanged *)
CloseFrame ==
    UNCHANGED <<rows, other, returned, credentials, parcel_args, ledger_op, gls_processing, close_workday, close_calls, received, disk,
                skip_uploaded, client, sessions, tracker, parcels, row_indices, batch_start,
                processed, responses, i, now, crashes, created, crashedSuccess,
                succeeded, calls, written>>

(* process_file lines 163 and 165: a run-level error *)
close_error(res, kind, text) == [res EXCEPT !.errors = Append(@, <<kind, text>>)]

(* the remote CloseWorkDay returns; lines 235 and 162-163 *)
CloseReturn ==
    /\ pc = "close_attempt"
    /\ \E doc \in CloseDocuments :
          LET close_result == parse_close_work_day_response(doc)
          IN result' = IF close_result.success THEN result
                       ELSE close_error(result, "CloseWorkDay", close_result.error)
    /\ pc' = "done"
    /\ UNCHANGED <<attempt, sleeps>>
    /\ reports' = Append(reports, result.total)
    /\ CloseFrame

(* _execute_with_retry lines 73-78 under close_work_day *)
CloseFaultRetry ==
    /\ pc = "close_attempt"
    /\ attempt < GLS_RETRY_ATTEMPTS - 1
    /\ attempt' = attempt + 1 /\ sleeps' = Append(sleeps, backoff(attempt))
    /\ UNCHANGED <<pc, result, reports>>
    /\ CloseFrame

(* lines 73-82 on the last attempt, caught at process_file lines 164-165 *)
CloseFaultExhausted ==
    /\ pc = "close_attempt"
    /\ attempt = GLS_RETRY_ATTEMPTS - 1
    /\ result' = close_error(result, "CloseWorkDay fallito", "Fallito dopo tentativi")
    /\ pc' = "done"
    /\ UNCHANGED <<attempt, sleeps>>
    /\ reports' = Append(reports, result.total)
    /\ CloseFrame

(* lines 79-80 under close_work_day *)
CloseError ==
    /\ pc = "close_attempt"
    /\ result' = close_error(result, "CloseWorkDay fallito", "Errore imprevisto")
    /\ pc' = "done"
    /\ UNCHANGED <<attempt, sleeps>>
    /\ reports' = Append(reports, result.total)
    /\ CloseFrame

(* _save lines 49-50: the write fails after the truncation; RuntimeError
   leaves process_file *)
SaveIOError ==
    /\ pc = "save"
    /\ pc' = "raised"
    /\ UNCHANGED <<rows, other, returned, credentials, parcel_args, ledger_op, gls_processing, close_workday, close_calls, received, disk, skip_uploaded, client, sessions, tracker, result, parcels,
                   row_indices, batch_start, processed, reports, attempt, sleeps, responses, i, now,
                   crashes, created, crashedSuccess, succeeded, calls, written>>

(* the responses of the batch in hand that are successes *)
RoundTripped ==
    IF pc \in {"reconcile", "save"}
    THEN {KeyOf(batch_indices[j]) :
            j \in {k \in 1..Min(Len(responses), Len(batch_indices)) :
                     is_success(responses[k])}}
    ELSE {}

(* the process is killed during a run *)
Crash ==
    /\ pc \in {"batch", "attempt", "reconcile", "save", "finalize", "close_attempt"}
    /\ crashes < MaxCrashes
    /\ crashes' = crashes + 1
    /\ crashedSuccess' = crashedSuccess \cup RoundTripped
    /\ pc' = "dead"
    /\ client' = FALSE /\ sessions' = 0
    /\ tracker' = [loaded |-> FALSE, data |-> EmptyLedger]
    /\ skip_uploaded' = TRUE
    /\ gls_processing' = FALSE
    /\ succeeded' = succeeded \cup written
    /\ ResetRun
    /\ UNCHANGED <<rows, other, returned, credentials, parcel_args, ledger_op, disk, now, created>>

Next ==
    \/ \E skip \in BOOLEAN : NewProcessor(skip)
    \/ Exit
    \/ process_file
    \/ Submit
    \/ ConnectFail
    \/ RemoteReturn
    \/ RemoteFaultRetry
    \/ RemoteFaultExhausted
    \/ RemoteError
    \/ ReconcileIndexError
    \/ ReconcileSuccess
    \/ SaveComplete
    \/ ReconcileFailure
    \/ BatchDone
    \/ Finalize
    \/ CloseReturn
    \/ CloseFaultRetry
    \/ CloseFaultExhausted
    \/ CloseError

Spec == Init /\ [][Next]_vars

NextCrash ==
    \/ Next
    \/ SaveIOError
    \/ Crash

(* a remote invocation in flight returns or raises: the HTTP transport
   ends every request it sends *)
RemoteOutcome ==
    \/ RemoteReturn
    \/ RemoteFaultRetry
    \/ RemoteFaultExhausted
    \/ RemoteError
    \/ CloseReturn
    \/ CloseFaultRetry
    \/ CloseFaultExhausted
    \/ CloseError

(* the files of the runs checked for termination have up to MaxFairRows rows *)
InitFair == Init /\ Len(rows) <= MaxFairRows

SpecFair == InitFair /\ [][Next]_vars /\ WF_vars(RemoteOutcome)

(* the files of the runs that are killed have up to MaxCrashRows rows *)
InitCrash == Init /\ Len(rows) <= MaxCrashRows

SpecCrash == InitCrash /\ [][NextCrash]_vars

(* ValidatorGUI._stop_gls_upload: the operator stops the session while the
   worker thread is inside process_file *)
stop_gls_upload ==
    /\ pc \in {"batch", "attempt", "reconcile", "save", "finalize", "close_attempt"}
    /\ gls_processing
    /\ gls_processing' = FALSE
    /\ UNCHANGED <<rows, other, returned, credentials, parcel_args, ledger_op, close_workday, close_calls, received, disk, pc, skip_uploaded,
                   client, sessions, tracker, result, parcels, row_indices, batch_start,
                   processed, reports, attempt, sleeps, responses, i, now, crashes, created,
                   crashedSuccess, succeeded, calls, written>>

NextGui ==
    \/ Next
    \/ stop_gls_upload

SpecGui == Init /\ [][NextGui]_vars

(* ---------------- the response parser on its own inputs ------------------ *)
ShortText == "Credenziali errate"
Ten == "0123456789"
LongText == Ten \o Ten \o Ten \o Ten \o Ten \o Ten \o Ten \o Ten \o Ten \o Ten \o Ten \o Ten

(* <Parcel> elements with and without a <Bda> child, which may be empty *)
ParseEntryKinds ==
    [numero_spedizione : {"S1", ""}, esito : {"OK", "KO"}, error_message : {""},
     bda : {{}, {""}, {"B9"}}]

(* the requests: 1..GLS_MAX_PARCELS_PER_BATCH parcels with references 1, 2, .. *)
ParseRequests ==
    {[j \in 1..n |-> CHOOSE p \in create_parcel(extract_row_data("ROSSI SRL", j)) : TRUE] :
        n \in 1..GLS_MAX_PARCELS_PER_BATCH}

ParseDocuments(n) ==
    {Document(FALSE, FALSE, "", <<>>), Document(TRUE, FALSE, "", <<>>)} \cup
    {Document(TRUE, TRUE, t, <<>>) : t \in {"", ShortText, LongText}} \cup
    {Document(TRUE, TRUE, "", e) :
        e \in UNION {[1..m -> ParseEntryKinds] : m \in 1..(n + MaxExtraEntries)}}

(* add_parcels line 128 on a request and a returned value *)
ParseResponse ==
    /\ pc = "dead"
    /\ received = {}
    /\ \E ps \in ParseRequests :
          \E doc \in ParseDocuments(Len(ps)) :
             /\ parcels' = ps
             /\ received' = {doc}
             /\ IF parse_raises(doc)
                THEN responses' = <<>> /\ pc' = "raised"
                ELSE responses' = parse_add_parcel_response(doc, ps) /\ pc' = "parsed"
    /\ UNCHANGED <<rows, other, returned, credentials, parcel_args, ledger_op, gls_processing, close_workday, close_calls, disk, skip_uploaded,
                   client, sessions, tracker, result, row_indices, batch_start, processed, reports,
                   attempt, sleeps, i, now, crashes, created, crashedSuccess, succeeded,
                   calls, written>>

NextParse == ParseResponse

SpecParse == Init /\ [][NextParse]_vars

(* ------------- the client on its own: construction and add_parcels ------ *)
Fields == {"", "x"}
AllCredentials ==
    {GLSCredentials(a, b, c, d) : a \in Fields, b \in Fields, c \in Fields, d \in Fields}

(* requests of one parcel up to one more than a batch may hold *)
ClientRequests ==
    {[j \in 1..n |-> CHOOSE p \in create_parcel(extract_row_data("ROSSI SRL", j)) : TRUE] :
        n \in 1..(GLS_MAX_PARCELS_PER_BATCH + MaxExtraEntries)}

(* mutant: the size is looked at once the session exists *)
add_parcels_late_check ==
    /\ pc \in {"idle", "client_error"}
    /\ \E ps \in ClientRequests :
          /\ parcels' = ps
          /\ client' = TRUE /\ sessions' = get_client(client, sessions)
          /\ pc' = IF Len(ps) > GLS_MAX_PARCELS_PER_BATCH THEN "client_error" ELSE "call"
    /\ UNCHANGED <<rows, other, returned, credentials, parcel_args, ledger_op, disk, skip_uploaded,
                   tracker, result, row_indices, batch_start, processed, reports, attempt, sleeps,
                   responses, i, now, crashes, created, crashedSuccess, succeeded,
                   calls, written, close_workday, close_calls, received,
                   gls_processing>>

(* GLSClient.add_parcels lines 108-118 called with a list of parcels: the
   size check, then the session and the remote call *)
add_parcels ==
    /\ pc \in {"idle", "client_error"}
    /\ \E ps \in ClientRequests :
          /\ parcels' = ps
          /\ IF Len(ps) > GLS_MAX_PARCELS_PER_BATCH
             THEN pc' = "client_error" /\ UNCHANGED <<client, sessions>>
             ELSE pc' = "call" /\ client' = TRUE /\ sessions' = get_client(client, sessions)
    /\ UNCHANGED <<rows, other, returned, credentials, parcel_args, ledger_op, disk, skip_uploaded,
                   tracker, result, row_indices, batch_start, processed, reports, attempt, sleeps,
                   responses, i, now, crashes, created, crashedSuccess, succeeded,
                   calls, written, close_workday, close_calls, received,
                   gls_processing>>

InitClient ==
    /\ rows \in Files
    /\ credentials \in AllCredentials
    /\ disk = AbsentFile
    /\ Boot

NextClient ==
    \/ \E skip \in BOOLEAN : NewProcessor(skip)
    \/ add_parcels

SpecClient == InitClient /\ [][NextClient]_vars

(* ------------------- GLSParcel on its own arguments --------------------- *)
Name50 == Ten \o Ten \o Ten \o Ten \o Ten
Address36 == "VIA GIUSEPPE GARIBALDI 123 SCALA B 4"
Note41 == Ten \o Ten \o Ten \o Ten \o "x"

ZipInputs == {"", "5", "100", "00100", " 123 ", "100.0", "00100.0", "20100.0", "123456"}

ParcelArgs ==
    [ragione_sociale : {"ROSSI SRL", Name50},
     indirizzo : {"VIA ROMA 1", Address36},
     localita : {"ROMA"},
     zipcode : ZipInputs,
     provincia : {"", "R", "rm", "Roma"},
     note : {"", "1 - 3331234567", Note41},
     email : {""},
     cellulare : {""},
     bda : {"1"},
     colli : {DEFAULT_COLLI},
     peso : {DEFAULT_PESO},
     contrassegno : {0},
     importo_assicurato : {0}]

(* GLSParcel(...) on arguments of the caller's choice *)
NewParcel ==
    /\ pc = "dead"
    /\ parcel_args = {}
    /\ \E args \in ParcelArgs :
          /\ parcel_args' = {args}
          /\ parcels' = <<GLSParcel(args)>>
    /\ pc' = "built"
    /\ UNCHANGED <<rows, other, returned, credentials, ledger_op, disk, skip_uploaded, client, sessions,
                   tracker, result, row_indices, batch_start, processed, reports, attempt, sleeps,
                   responses, i, now, crashes, created, crashedSuccess, succeeded,
                   calls, written, close_workday, close_calls, received,
                   gls_processing>>

NextParcel == NewParcel

SpecParcel == Init /\ [][NextParcel]_vars

(* ------------- building the parcels of rows of every shape -------------- *)
Long45 == Ten \o Ten \o Ten \o Ten \o "abcde"

WideRows ==
    [ragione_sociale : {"", "ROSSI SRL", Name50},
     indirizzo : {"", "VIA ROMA 1"},
     cap : {"", "00100", "100.0"},
     citta : {"", "ROMA"},
     provincia : {"", "Roma"},
     progressivo : {"", "1"},
     telefono_cell : {"", "+39 333 1234567"},
     telefono_fisso : {""},
     email : {""},
     indicazioni : {"", Long45}]

InitBuild ==
    /\ rows \in {<<r>> : r \in WideRows}
    /\ credentials = GLSCredentials("R1", "12345", "secret", "77")
    /\ disk = AbsentFile
    /\ Boot

NextBuild ==
    \/ \E skip \in BOOLEAN : NewProcessor(skip)
    \/ process_file
    \/ Submit

SpecBuild == InitBuild /\ [][NextBuild]_vars

(* ------------------- the UploadTracker on its own ----------------------- *)
LedgerFiles == {"dir/lista.xlsx", "dir/lista.xls", "dir/altro.xlsx"}

(* the ledger the tracker works on: _load in __init__ on first use *)
LedgerData == IF tracker.loaded THEN tracker.data ELSE load(disk)

(* _load lines 37-41: json.load raises UnicodeDecodeError, which is neither
   JSONDecodeError nor IOError, on bytes that are not UTF-8 *)
load_raises(file) == file.state = "undecodable"

(* UploadTracker.__init__ on the directory *)
open_tracker ==
    /\ pc = "dead"
    /\ IF load_raises(disk)
       THEN pc' = "raised" /\ UNCHANGED tracker
       ELSE pc' = "ledger" /\ tracker' = [loaded |-> TRUE, data |-> load(disk)]
    /\ UNCHANGED <<rows, other, returned, credentials, parcel_args, ledger_op, disk,
                   skip_uploaded, client, sessions, result, parcels, row_indices,
                   batch_start, processed, reports, attempt, sleeps, responses, i,
                   now, crashes, created, crashedSuccess, succeeded, calls, written,
                   close_workday, close_calls, received, gls_processing>>

(* seq[start:] of Python, start negative counting from the end *)
slice_from(seq, start) ==
    LET n == Len(seq)
        first == IF start < 0 THEN (IF n + start < 0 THEN 0 ELSE n + start)
                 ELSE (IF start > n THEN n ELSE start)
    IN SubSeq(seq, first + 1, n)

(* reversed(seq) *)
reversed(seq) == [j \in 1..Len(seq) |-> seq[Len(seq) - j + 1]]

(* UploadTracker.get_upload_history(limit) *)
get_upload_history(limit) ==
    /\ pc = "ledger"
    /\ returned' = [call |-> "get_upload_history", limit |-> limit,
                    history |-> tracker.data.history,
                    value |-> reversed(slice_from(tracker.data.history, 0 - limit))]
    /\ UNCHANGED <<rows, other, credentials, parcel_args, ledger_op, disk, pc, tracker,
                   skip_uploaded, client, sessions, result, parcels, row_indices,
                   batch_start, processed, reports, attempt, sleeps, responses, i,
                   now, crashes, created, crashedSuccess, succeeded, calls, written,
                   close_workday, close_calls, received, gls_processing>>

(* UploadTracker.mark_uploaded with _save *)
mark_uploaded(file_path, row_index) ==
    /\ pc = "ledger"
    /\ ledger_op.n < MaxLedgerOps
    /\ LET data == mark_uploaded_data(LedgerData, file_path, row_index,
                                      extract_row_data("ROSSI SRL", row_index + 1),
                                      "S1", now)
       IN /\ tracker' = [loaded |-> TRUE, data |-> data]
          /\ disk' = CompleteFile(data)
    /\ ledger_op' = [op |-> "mark_uploaded", file |-> file_path, n |-> ledger_op.n + 1]
    /\ pc' = "ledger"
    /\ UNCHANGED <<rows, other, returned, credentials, parcel_args, skip_uploaded, client, sessions, result,
                   parcels, row_indices, batch_start, processed, reports, attempt, sleeps, responses,
                   i, now, crashes, created, crashedSuccess, succeeded, calls,
                   written, close_workday, close_calls, received, gls_processing>>

(* mutant: every record goes *)
clear_file_uploads_every(file_path) ==
    /\ pc = "ledger"
    /\ ledger_op.n < MaxLedgerOps
    /\ LET keys_to_remove == DOMAIN LedgerData.uploads
           data == [uploads |-> << >>,
                    history |-> IF keys_to_remove # {}
                                THEN Append(LedgerData.history,
                                            [action |-> "clear_file",
                                             file |-> Stem(file_path),
                                             count |-> Cardinality(keys_to_remove),
                                             timestamp |-> now])
                                ELSE LedgerData.history]
       IN /\ tracker' = [loaded |-> TRUE, data |-> data]
          /\ disk' = CompleteFile(data)
    /\ ledger_op' = [op |-> "clear_file", file |-> file_path, n |-> ledger_op.n + 1]
    /\ pc' = "ledger"
    /\ UNCHANGED <<rows, other, returned, credentials, parcel_args, skip_uploaded, client, sessions, result,
                   parcels, row_indices, batch_start, processed, reports, attempt, sleeps, responses,
                   i, now, crashes, created, crashedSuccess, succeeded, calls,
                   written, close_workday, close_calls, received, gls_processing>>

(* UploadTracker.clear_file_uploads: the keys that start with the stem of
   the file and a colon *)
clear_file_uploads(file_path) ==
    /\ pc = "ledger"
    /\ ledger_op.n < MaxLedgerOps
    /\ LET keys_to_remove == {key \in DOMAIN LedgerData.uploads :
                                 key[1] = Stem(file_path)}
           data == [uploads |-> [key \in DOMAIN LedgerData.uploads \ keys_to_remove |->
                                    LedgerData.uploads[key]],
                    history |-> IF keys_to_remove # {}
                                THEN Append(LedgerData.history,
                                            [action |-> "clear_file",
                                             file |-> Stem(file_path),
                                             count |-> Cardinality(keys_to_remove),
                                             timestamp |-> now])
                                ELSE LedgerData.history]
       IN /\ tracker' = [loaded |-> TRUE, data |-> data]
          /\ disk' = CompleteFile(data)
    /\ ledger_op' = [op |-> "clear_file", file |-> file_path, n |-> ledger_op.n + 1]
    /\ pc' = "ledger"
    /\ UNCHANGED <<rows, other, returned, credentials, parcel_args, skip_uploaded, client, sessions, result,
                   parcels, row_indices, batch_start, processed, reports, attempt, sleeps, responses,
                   i, now, crashes, created, crashedSuccess, succeeded, calls,
                   written, close_workday, close_calls, received, gls_processing>>

(* UploadTracker.clear_all *)
clear_all ==
    /\ pc = "ledger"
    /\ ledger_op.n < MaxLedgerOps
    /\ LET data == [uploads |-> << >>,
                    history |-> <<[action |-> "clear_all",
                                   count |-> Cardinality(DOMAIN LedgerData.uploads),
                                   timestamp |-> now]>>]
       IN /\ tracker' = [loaded |-> TRUE, data |-> data]
          /\ disk' = CompleteFile(data)
    /\ ledger_op' = [op |-> "clear_all", file |-> "", n |-> ledger_op.n + 1]
    /\ pc' = "ledger"
    /\ UNCHANGED <<rows, other, returned, credentials, parcel_args, skip_uploaded, client, sessions, result,
                   parcels, row_indices, batch_start, processed, reports, attempt, sleeps, responses,
                   i, now, crashes, created, crashedSuccess, succeeded, calls,
                   written, close_workday, close_calls, received, gls_processing>>

(* the ledger file a tracker may find in the directory *)
FilesFound == {AbsentFile, PartialFile, UndecodableFile, UnreadableFile}

InitLedger ==
    /\ rows \in {f \in Files : Len(f) = 1}
    /\ credentials = GLSCredentials("R1", "12345", "secret", "77")
    /\ disk \in FilesFound
    /\ Boot

NextLedger ==
    \/ open_tracker
    \/ \E f \in LedgerFiles : \E row_index \in 0..1 : mark_uploaded(f, row_index)
    \/ \E f \in LedgerFiles : clear_file_uploads(f)
    \/ clear_all
    \/ \E limit \in 0..MaxLimit : get_upload_history(limit)

SpecLedger == InitLedger /\ [][NextLedger]_vars

(* ------------------- the payload of a submission ------------------------ *)
(* f"{x:.2f}" of an amount counted in hundredths *)
Fixed2(hundredths) ==
    ToString(hundredths \div 100) \o "." \o
    ToString((hundredths % 100) \div 10) \o ToString(hundredths % 10)

(* GLSParcel.to_dict: the fields in their order *)
to_dict(parcel) ==
    << <<"RagioneSociale", parcel.ragione_sociale>>,
       <<"Indirizzo", parcel.indirizzo>>,
       <<"Localita", parcel.localita>>,
       <<"Zipcode", parcel.zipcode>>,
       <<"Provincia", parcel.provincia>>,
       <<"Colli", ToString(parcel.colli)>>,
       <<"PesoReale", Fixed2(parcel.peso)>>,
       <<"Note", parcel.note>>,
       <<"Email", parcel.email>>,
       <<"Cellulare", parcel.cellulare>>,
       <<"BDA", parcel.bda>>,
       <<"Contrassegno", IF parcel.contrassegno > 0 THEN Fixed2(parcel.contrassegno) ELSE "">>,
       <<"ImportoAssicurato", IF parcel.importo_assicurato > 0
                              THEN Fixed2(parcel.importo_assicurato) ELSE "">> >>

(* lines 146-149: the fields whose value is not empty, in their order *)
RECURSIVE NonEmptyFields(_)
NonEmptyFields(data) ==
    IF data = <<>> THEN <<>>
    ELSE IF Head(data)[2] # "" THEN <<Head(data)>> \o NonEmptyFields(Tail(data))
    ELSE NonEmptyFields(Tail(data))

(* mutant: every field gets its element *)
build_parcels_xml_all(parcel_list) ==
    [tag |-> "Info",
     children |-> [j \in 1..Len(parcel_list) |->
                     [tag |-> "Parcel", children |-> to_dict(parcel_list[j])]]]

(* GLSClient._build_parcels_xml: the Info element, one Parcel child per
   parcel, one child of it per field whose value is not empty *)
build_parcels_xml(parcel_list) ==
    [tag |-> "Info",
     children |-> [j \in 1..Len(parcel_list) |->
                     [tag |-> "Parcel",
                      children |-> NonEmptyFields(to_dict(parcel_list[j]))]]]

PayloadArgs ==
    [ragione_sociale : {"ROSSI SRL"},
     indirizzo : {"", "VIA ROMA 1"},
     localita : {"", "ROMA"},
     zipcode : {"00100"},
     provincia : {"", "rm"},
     note : {"", "1 - 3331234567"},
     email : {"", "info@rossi.it"},
     cellulare : {"", "3331234567"},
     bda : {"", "1"},
     colli : {0, 2},
     peso : {0, 350},
     contrassegno : {0, 1250},
     importo_assicurato : {0, 50005}]

(* a second parcel for the batches of two *)
SecondParcels ==
    {GLSParcel(a) : a \in {b \in PayloadArgs :
                             /\ b.indirizzo # "" /\ b.localita # "" /\ b.provincia # ""
                             /\ b.note = "" /\ b.cellulare = "" /\ b.bda # ""
                             /\ b.colli = 2 /\ b.peso = 350
                             /\ b.importo_assicurato = 0}}

PayloadBatches ==
    {<<GLSParcel(a)>> : a \in PayloadArgs} \cup
    {<<GLSParcel(a), q>> : a \in {b \in PayloadArgs : b.colli = 2 /\ b.peso = 350},
                           q \in SecondParcels}

(* add_parcels line 114: the payload of a batch *)
build_payload ==
    /\ pc = "dead"
    /\ returned.call = "none"
    /\ \E batch_parcels \in PayloadBatches :
          returned' = [call |-> "_build_parcels_xml", parcels |-> batch_parcels,
                       value |-> build_parcels_xml(batch_parcels)]
    /\ UNCHANGED <<rows, other, credentials, parcel_args, ledger_op, disk, pc, tracker,
                   skip_uploaded, client, sessions, result, parcels, row_indices,
                   batch_start, processed, reports, attempt, sleeps, responses, i,
                   now, crashes, created, crashedSuccess, succeeded, calls, written,
                   close_workday, close_calls, received, gls_processing>>

InitPayload == Init /\ Len(rows) = 1

NextPayload == build_payload

SpecPayload == InitPayload /\ [][NextPayload]_vars

(* ------------------- the row key on its own inputs ---------------------- *)
KeyRows ==
    [ragione_sociale : {"ROSSI SRL", "rossi srl", "Rossi Srl", "BIANCHI SPA"},
     indirizzo : {"VIA ROMA 1", "via roma 1"},
     cap : {"00100", "20100"},
     citta : {"ROMA", "MILANO"},
     provincia : {"RM"},
     progressivo : {"1"},
     telefono_cell : {""},
     telefono_fisso : {""},
     email : {""},
     indicazioni : {""}]

KeyInputs ==
    [file_path : LedgerFiles, row_index : 0..1, row_data : KeyRows]

(* UploadTracker._generate_row_key called on two rows, in one process or
   in two: nothing but the arguments enters the key *)
generate_row_keys ==
    /\ pc = "dead"
    /\ returned.call = "none"
    /\ \E a \in KeyInputs : \E b \in KeyInputs :
          returned' = [call |-> "_generate_row_key", first |-> a, second |-> b,
                       value |-> <<key_text(generate_row_key(a.file_path, a.row_index,
                                                             a.row_data)),
                                   key_text(generate_row_key(b.file_path, b.row_index,
                                                             b.row_data))>>]
    /\ UNCHANGED <<rows, other, credentials, parcel_args, ledger_op, disk, pc, tracker,
                   skip_uploaded, client, sessions, result, parcels, row_indices,
                   batch_start, processed, reports, attempt, sleeps, responses, i,
                   now, crashes, created, crashedSuccess, succeeded, calls, written,
                   close_workday, close_calls, received, gls_processing>>

InitKey == Init /\ Len(rows) = 1

NextKey == generate_row_keys

SpecKey == InitKey /\ [][NextKey]_vars

(* ------------- two trackers opened on the same directory ---------------- *)
(* UploadTracker.__init__ of the second instance *)
open_other ==
    /\ ~other.loaded
    /\ other' = [loaded |-> TRUE, data |-> load(disk)]
    /\ UNCHANGED <<rows, returned, credentials, parcel_args, ledger_op, disk, pc, tracker,
                   skip_uploaded, client, sessions, result, parcels, row_indices,
                   batch_start, processed, reports, attempt, sleeps, responses, i,
                   now, crashes, created, crashedSuccess, succeeded, calls, written,
                   close_workday, close_calls, received, gls_processing>>

(* mutant: the second instance reads the file again before it records *)
other_mark_uploaded_merging(file_path, row_index) ==
    /\ other.loaded
    /\ ledger_op.n < MaxLedgerOps
    /\ LET data == mark_uploaded_data(load(disk), file_path, row_index,
                                      extract_row_data("ROSSI SRL", row_index + 1),
                                      "S2", now)
       IN /\ other' = [loaded |-> TRUE, data |-> data]
          /\ disk' = CompleteFile(data)
    /\ ledger_op' = [op |-> "other_mark_uploaded", file |-> file_path,
                     n |-> ledger_op.n + 1]
    /\ UNCHANGED <<rows, returned, credentials, parcel_args, pc, tracker,
                   skip_uploaded, client, sessions, result, parcels, row_indices,
                   batch_start, processed, reports, attempt, sleeps, responses, i,
                   now, crashes, created, crashedSuccess, succeeded, calls, written,
                   close_workday, close_calls, received, gls_processing>>

(* UploadTracker.mark_uploaded with _save, called on the second instance *)
other_mark_uploaded(file_path, row_index) ==
    /\ other.loaded
    /\ ledger_op.n < MaxLedgerOps
    /\ LET data == mark_uploaded_data(other.data, file_path, row_index,
                                      extract_row_data("ROSSI SRL", row_index + 1),
                                      "S2", now)
       IN /\ other' = [loaded |-> TRUE, data |-> data]
          /\ disk' = CompleteFile(data)
    /\ ledger_op' = [op |-> "other_mark_uploaded", file |-> file_path,
                     n |-> ledger_op.n + 1]
    /\ UNCHANGED <<rows, returned, credentials, parcel_args, pc, tracker,
                   skip_uploaded, client, sessions, result, parcels, row_indices,
                   batch_start, processed, reports, attempt, sleeps, responses, i,
                   now, crashes, created, crashedSuccess, succeeded, calls, written,
                   close_workday, close_calls, received, gls_processing>>

InitShared == Init /\ Len(rows) = 1

NextShared ==
    \/ open_tracker
    \/ \E row_index \in 0..3 : mark_uploaded(FILE_PATH, row_index)
    \/ open_other
    \/ \E row_index \in 0..3 : other_mark_uploaded(FILE_PATH, row_index)

SpecShared == InitShared /\ [][NextShared]_vars

(* ======================================================================= *)
(*                              Properties                                 *)
(* ======================================================================= *)
Range(seq) == {seq[j] : j \in 1..Len(seq)}
Count(seq, x) == Cardinality({j \in 1..Len(seq) : seq[j] = x})
Ceil(n, d) == (n + d - 1) \div d

RunPcs == {"batch", "attempt", "reconcile", "save", "finalize", "close_attempt",
           "done", "raised"}

(* the key of row j of the file *)
RowKey(j) == generate_row_key(FILE_PATH, j - 1, rows[j])

(* the keys of the rows handed to add_parcels so far in the run *)
CallKeys == UNION {{KeyOf(calls[c].rows[e]) : e \in 1..Len(calls[c].rows)} :
                   c \in 1..Len(calls)}

(* the outcome flag is OK, whatever its letter case *)
FlagOK(response) == response.esito \in {"OK", "ok", "Ok", "oK"}
Accepted(response) == FlagOK(response) /\ response.numero_spedizione # ""

(* the text add_failure gets for a rejected response (line 320) *)
ServerText(response) ==
    IF response.error_message # "" THEN response.error_message ELSE "Errore sconosciuto"

(* the texts of the GLSClientError a submit can end in *)
ClientErrorTexts == {"Fallito dopo tentativi", "Errore imprevisto",
                     "Impossibile connettersi a GLS", "Massimo spedizioni per batch"}

(* C1: with the dedup filter on, no request is sent to the remote service
   that carries a key whose parcel the service has already created, across
   retries, failed batches and runs. *)
C1_AtMostOnce ==
    (skip_uploaded /\ pc = "attempt") => BatchKeys \cap created = {}

(* C2 as stated: a row counted Uploaded by an earlier run is in no
   add_parcels call of a later run, its record is in the ledger, and the
   later run counts it Skipped. *)
C2_IdempotentAcrossRuns ==
    pc \in RunPcs =>
        /\ CallKeys \cap succeeded = {}
        /\ succeeded \subseteq DOMAIN tracker.data.uploads
        /\ disk.state # "partial" => succeeded \subseteq DOMAIN load(disk).uploads
        /\ \A j \in 1..Len(rows) :
              RowKey(j) \in succeeded => <<"SKIP", ToString(j - 1)>> \in Range(result.errors)
        /\ result.skipped = Cardinality({j \in 1..Len(rows) : RowKey(j) \in succeeded})

(* C2 amended: the same, for a processor constructed with skip_uploaded
   true (the default). *)
C2_IdempotentWhenSkipping == skip_uploaded => C2_IdempotentAcrossRuns

C2_Witness ==
    /\ pc = "done"
    /\ now = 2
    /\ skip_uploaded
    /\ succeeded # {}
    /\ result.skipped = Cardinality(succeeded)
    /\ result.skipped >= 1
    /\ calls # <<>>

(* C3: a parcel that round-tripped as successful in a run killed before the
   ledger write of its batch completed is in no add_parcels call of a
   later run. *)
C3_NoResubmitAfterKill ==
    skip_uploaded => CallKeys \cap crashedSuccess = {}

(* C4: the ledger file is never partial: after a kill during _save it
   holds a complete ledger, and no reader sees a partial one. *)
C4_AtomicSave == disk.state # "partial"

(* C5: reconciling one response entry counts the parcel Uploaded and puts
   its record in the ledger exactly when the entry has flag OK and a
   non-empty shipment id; otherwise it counts it Failed and leaves the
   ledger as it was. *)
C5_SuccessRule ==
    [][(pc = "reconcile" /\ i < Len(responses) /\ i < Len(batch_indices)) =>
        LET r == responses[i + 1]
            k == KeyOf(batch_indices[i + 1])
        IN IF Accepted(r)
           THEN /\ result'.uploaded = result.uploaded + 1
                /\ result'.failed = result.failed
                /\ k \in DOMAIN tracker'.data.uploads
                /\ tracker'.data.uploads[k].shipment_id = r.numero_spedizione
                /\ k \in written'
           ELSE /\ result'.failed = result.failed + 1
                /\ result'.uploaded = result.uploaded
                /\ tracker' = tracker
                /\ disk' = disk
                /\ written' = written]_vars

C5_Witness ==
    /\ pc = "reconcile"
    /\ i = 2
    /\ Len(responses) = 2
    /\ responses[1].esito = "OK" /\ responses[1].numero_spedizione = ""
    /\ responses[2].esito = "KO" /\ responses[2].numero_spedizione # ""
    /\ result.failed = 2
    /\ result.uploaded = 0
    /\ written = {}

(* C6: when a batch call returns one response per parcel, after the
   entries are reconciled exactly the accepted parcels have a record in the
   ledger file, every other parcel has exactly one failure, the run has not
   raised, and a run that returns has submitted every parcel. *)
C6_PartialBatchIsolation ==
    /\ (pc = "reconcile" /\ Len(responses) = Len(batch)) =>
          \A j \in 1..i :
             LET r == responses[j]
                 k == KeyOf(batch_indices[j])
             IN IF Accepted(r)
                THEN /\ disk.state = "complete"
                     /\ k \in DOMAIN disk.data.uploads
                     /\ k \in written
                     /\ \A e \in Range(result.errors) : ~(e[1] = "ERRORE" /\ e[2] = r.bda)
                ELSE /\ k \notin written
                     /\ Count(result.errors, <<"ERRORE", r.bda, ServerText(r)>>) = 1
    /\ pc = "raised" => Len(responses) # Len(batch)
    /\ pc = "done" => \A p \in 1..Len(row_indices) : KeyOf(row_indices[p]) \in CallKeys

C6_Witness ==
    /\ pc = "reconcile"
    /\ batch_start = 0
    /\ Len(parcels) > 2
    /\ Len(responses) = 2
    /\ i = 2
    /\ Accepted(responses[1])
    /\ ~Accepted(responses[2])
    /\ result.uploaded = 1
    /\ result.failed = 1

(* C7: when a submit ends in a client error every parcel of the group has
   exactly one failure with the exception text and no record written by the
   run, records written for other groups stay in the ledger, and the run
   goes on to the next group; 3 rows in groups of 2 with group 1 accepted
   and group 2 out of retries end as uploaded 2, skipped 0, failed 1. *)
C7_GroupFailureIsolation ==
    /\ \A c \in 1..Len(calls) :
          calls[c].outcome \in ClientErrorTexts =>
             /\ \A e \in 1..Len(calls[c].rows) :
                   /\ KeyOf(calls[c].rows[e]) \notin written
                   /\ Count(result.errors,
                            <<"ERRORE", ToString(calls[c].rows[e][1]), calls[c].outcome>>) = 1
             /\ (c * GLS_MAX_PARCELS_PER_BATCH < Len(parcels)) =>
                   (Len(calls) > c \/ pc = "batch")
    /\ written \subseteq DOMAIN tracker.data.uploads
    /\ pc # "save" => (disk.state = "complete" \/ written = {})
    /\ (pc # "save" /\ written # {}) => written \subseteq DOMAIN disk.data.uploads
    /\ (/\ pc = "done"
        /\ Len(rows) = 3
        /\ Len(calls) = 2
        /\ Len(calls[1].rows) = 2
        /\ \A e \in 1..2 : KeyOf(calls[1].rows[e]) \in written
        /\ calls[2].outcome = "Fallito dopo tentativi")
       => (result.uploaded = 2 /\ result.skipped = 0 /\ result.failed = 1)

C7_Witness ==
    /\ pc = "done"
    /\ Len(rows) = 3
    /\ Len(calls) = 2
    /\ Len(calls[1].rows) = 2
    /\ calls[1].outcome = "returned"
    /\ calls[2].outcome = "Fallito dopo tentativi"
    /\ result.uploaded = 2
    /\ result.failed = 1
    /\ Cardinality(DOMAIN disk.data.uploads) = 2

(* C8: every add_parcels call of a run carries between 1 and
   GLS_MAX_PARCELS_PER_BATCH parcels, a run that returns has made
   ceil(n / max) calls for its n parcels, and 2 * max parcels make 2 calls. *)
C8_BatchSize ==
    /\ \A c \in 1..Len(calls) :
          /\ Len(calls[c].rows) >= 1
          /\ Len(calls[c].rows) <= GLS_MAX_PARCELS_PER_BATCH
    /\ pc = "done" =>
          /\ Len(calls) = Ceil(Len(parcels), GLS_MAX_PARCELS_PER_BATCH)
          /\ Len(parcels) = 2 * GLS_MAX_PARCELS_PER_BATCH => Len(calls) = 2

C8_Witness ==
    /\ pc = "done"
    /\ Len(parcels) = 2 * GLS_MAX_PARCELS_PER_BATCH
    /\ Len(calls) = 2
    /\ Len(calls[1].rows) = GLS_MAX_PARCELS_PER_BATCH
    /\ Len(calls[2].rows) = GLS_MAX_PARCELS_PER_BATCH

(* C9: the responses a returned batch call hands to the orchestrator are
   one per submitted parcel, whatever the number of entries of the
   service's document. *)
C9_OneResponsePerParcel ==
    pc = "reconcile" => Len(responses) = Len(batch)

(* C10: no server response and no failure while reconciling makes
   process_file raise: the run always goes on and returns its result. *)
C10_RunNeverRaises == pc # "raised"
AttemptPcs == {"attempt", "close_attempt"}
Last(seq) == seq[Len(seq)]

(* the ledger a run examines its rows against (process_file line 109) *)
LedgerSeen == IF tracker.loaded THEN tracker.data ELSE load(disk)

(* a step taken while a remote invocation is in flight *)
RetryStep ==
    pc \in AttemptPcs =>
        \/ /\ pc' = pc
           /\ attempt' = attempt + 1
           /\ attempt' < GLS_RETRY_ATTEMPTS
           /\ result' = result
           /\ calls' = calls
        \/ /\ pc' \notin AttemptPcs
           /\ (pc = "attempt" /\ Last(calls').outcome = "Fallito dopo tentativi")
                 => attempt + 1 = GLS_RETRY_ATTEMPTS
           /\ (/\ pc = "close_attempt"
               /\ Len(result'.errors) > Len(result.errors)
               /\ Last(result'.errors)[2] = "Fallito dopo tentativi")
                 => attempt + 1 = GLS_RETRY_ATTEMPTS
           /\ (pc = "attempt" /\ pc' = "reconcile")
                 => Last(calls').outcome = "returned"

(* C11: an operation has invoked the remote method attempt + 1 times while
   an invocation is in flight, never more than GLS_RETRY_ATTEMPTS; a step
   out of an invocation either starts the next one with attempts left, or
   ends the operation; an operation that ends out of retries has invoked
   the method exactly GLS_RETRY_ATTEMPTS times; every operation ends. *)
C11_RetryBudget ==
    /\ [](pc \in AttemptPcs => attempt + 1 <= GLS_RETRY_ATTEMPTS)
    /\ [][RetryStep]_vars
    /\ (pc \in AttemptPcs) ~> (pc \notin AttemptPcs)

C11_Witness ==
    /\ pc = "done"
    /\ Len(calls) = 2
    /\ calls[1].outcome = "returned"
    /\ calls[2].outcome = "Fallito dopo tentativi"
    /\ result.errors # <<>>
    /\ Last(result.errors) = <<"CloseWorkDay fallito", "Fallito dopo tentativi">>

(* C12: a remote operation that ends in a client error has used its whole
   retry budget, whatever the error raised by the remote call. *)
C12_UniformRetry ==
    [][(/\ (/\ pc = "attempt"
           /\ pc' # "attempt"
           /\ Last(calls').outcome \in ClientErrorTexts)
             => attempt + 1 = GLS_RETRY_ATTEMPTS
       /\ (/\ pc = "close_attempt"
           /\ pc' = "done"
           /\ Len(result'.errors) > Len(result.errors)
           /\ Last(result'.errors)[1] = "CloseWorkDay fallito")
             => attempt + 1 = GLS_RETRY_ATTEMPTS)]_vars

(* process_file has counted Skipped, and kept out of the rows to upload,
   the rows whose key the ledger held *)
DuplicatesSkipped ==
    LET dup == {j \in 1..Len(rows) : RowKey(j) \in DOMAIN LedgerSeen.uploads}
    IN /\ result'.skipped = Cardinality(dup)
       /\ \A j \in dup :
             /\ <<"SKIP", ToString(j - 1)>> \in Range(result'.errors)
             /\ \A p \in 1..Len(row_indices') : row_indices'[p][1] # j - 1

(* C13 as stated: when process_file examines the rows, every row whose key
   is in the ledger is counted Skipped with its own entry, is not among the
   rows to upload, and no add_parcels call of the run carries a row outside
   the rows to upload. *)
C13_DedupFilter ==
    /\ [][now' = now + 1 => DuplicatesSkipped]_vars
    /\ [](CallKeys \subseteq {KeyOf(row_indices[p]) : p \in 1..Len(row_indices)})

(* C13 amended: the same, for a processor constructed with skip_uploaded
   true (the default). *)
C13_DedupWhenSkipping ==
    /\ [][(skip_uploaded /\ now' = now + 1) => DuplicatesSkipped]_vars
    /\ [](CallKeys \subseteq {KeyOf(row_indices[p]) : p \in 1..Len(row_indices)})

C13_Witness ==
    /\ pc = "attempt"
    /\ skip_uploaded
    /\ now = 2
    /\ Len(rows) = 3
    /\ result.skipped = 2
    /\ Len(parcels) = 1
    /\ parcels[1].bda = "2"
    /\ Cardinality(DOMAIN tracker.data.uploads) = 2

(* C14: a record of the ledger is neither changed nor removed by any step of
   a run, of a later run or of a later process. *)
C14_RecordsImmutable ==
    [][(\A k \in DOMAIN LedgerSeen.uploads :
          k \in DOMAIN LedgerSeen'.uploads /\ LedgerSeen'.uploads[k] = LedgerSeen.uploads[k])]_vars

(* the step in which close_work_day ends *)
CloseStep ==
    (pc = "close_attempt" /\ pc' = "done") =>
        /\ result'.uploaded = result.uploaded
        /\ result'.skipped = result.skipped
        /\ result'.failed = result.failed
        /\ tracker' = tracker
        /\ disk' = disk
        /\ \/ result'.errors = result.errors
           \/ /\ Len(result'.errors) = Len(result.errors) + 1
              /\ SubSeq(result'.errors, 1, Len(result.errors)) = result.errors
              /\ Last(result'.errors)[1] \in {"CloseWorkDay", "CloseWorkDay fallito"}

(* C15: close_work_day is called at most once in a run, only when it was
   requested, a parcel was uploaded and every group has been submitted and
   answered; a run that returns has called it exactly when it was requested
   and a parcel was uploaded; the step that ends it adds at most one
   run-level error and leaves counters and ledger as they were. *)
C15_Finalize ==
    /\ [](close_calls <= 1)
    /\ [](close_calls = 1 =>
            /\ close_workday
            /\ result.uploaded > 0
            /\ pc \in {"close_attempt", "done"}
            /\ Len(calls) = Ceil(Len(parcels), GLS_MAX_PARCELS_PER_BATCH)
            /\ \A c \in 1..Len(calls) : calls[c].outcome # "pending")
    /\ [](pc = "done" => (close_calls = 1 <=> (close_workday /\ result.uploaded > 0)))
    /\ [](pc = "close_attempt" => close_calls = 1)
    /\ [][CloseStep]_vars

C15_Witness ==
    /\ pc = "done"
    /\ close_calls = 1
    /\ result.uploaded = 1
    /\ result.failed = 1
    /\ result.errors # <<>>
    /\ Last(result.errors) = <<"CloseWorkDay", "Giornata non chiudibile">>
    /\ Cardinality(DOMAIN load(disk).uploads) = 1

(* the add_parcels calls not yet answered *)
InFlight == {c \in 1..Len(calls) : calls[c].outcome = "pending"}

(* C16: while the entries of a group are reconciled the record of every
   accepted entry already reconciled is in the ledger file; when a group's
   submit starts or is in flight the file is complete and holds every record
   the run has written; at most one remote call is in flight. *)
C16_SequentialPersisted ==
    /\ pc = "reconcile" =>
          /\ disk.state # "partial"
          /\ \A j \in 1..Min(i, Len(batch_indices)) :
                Accepted(responses[j]) =>
                   /\ KeyOf(batch_indices[j]) \in DOMAIN load(disk).uploads
                   /\ load(disk).uploads[KeyOf(batch_indices[j])].shipment_id
                         = responses[j].numero_spedizione
    /\ pc \in {"batch", "attempt"} =>
          /\ disk.state # "partial"
          /\ written \subseteq DOMAIN load(disk).uploads
    /\ Cardinality(InFlight) + (IF pc = "close_attempt" THEN 1 ELSE 0) <= 1
    /\ InFlight # {} => (pc = "attempt" /\ InFlight = {Len(calls)})

C16_Witness ==
    /\ pc = "attempt"
    /\ batch_start = GLS_MAX_PARCELS_PER_BATCH
    /\ Cardinality(written) = 2
    /\ disk.state = "complete"
    /\ written = DOMAIN disk.data.uploads
    /\ InFlight = {2}

(* C17: a group is not submitted once the session has been stopped: the
   stop is seen before each group. *)
C17_CancelBetweenGroups ==
    [][(pc = "batch" /\ ~gls_processing) => pc' # "attempt"]_vars

(* the zero-entry case of the parser: the value is a well-formed document
   without <Parcel> elements *)
ZeroEntries(doc) == doc.text /\ doc.wellformed /\ doc.entries = <<>>

(* n failures in request order carrying the parcels' references, the text
   of each being the fixed head and the first characters of body, at most
   ERROR_TEXT_LIMIT of them *)
AllFailedWithPrefixOf(body) ==
    /\ Len(responses) = Len(parcels)
    /\ \A j \in 1..Len(responses) :
          /\ ~Accepted(responses[j])
          /\ responses[j].bda = parcels[j].bda
          /\ \E n \in 0..ERROR_TEXT_LIMIT :
                /\ n <= Len(body)
                /\ responses[j].error_message
                      = "Risposta non parsabile: " \o SubSeq(body, 1, n)

(* C18 as stated: the error text holds a prefix of at most 100 characters
   of the raw response body. *)
C18_ZeroEntriesRawBody ==
    \A doc \in received :
       (pc = "parsed" /\ ZeroEntries(doc)) => AllFailedWithPrefixOf(tostring(doc))

(* C18 amended: the error text holds the first 100 characters at most of
   the text of the root element, or of the serialized document when the
   root element has no text. *)
C18_ZeroEntriesRootText ==
    \A doc \in received :
       (pc = "parsed" /\ ZeroEntries(doc)) =>
          AllFailedWithPrefixOf(IF doc.root_text # "" THEN doc.root_text
                                ELSE tostring(doc))

C18_Witness ==
    /\ pc = "parsed"
    /\ received = {Document(TRUE, TRUE, LongText, <<>>)}
    /\ Len(parcels) = 2
    /\ Len(responses) = 2
    /\ responses[2].bda = "2"
    /\ responses[2].error_message
          = "Risposta non parsabile: " \o SubSeq(LongText, 1, ERROR_TEXT_LIMIT)

(* the value is not a well-formed document *)
IllFormed(doc) == ~(doc.text /\ doc.wellformed)

(* the step in which the remote AddParcel returns *)
IllFormedStep ==
    (pc = "attempt" /\ received' # {} /\ \A doc \in received' : IllFormed(doc)) =>
        /\ pc' = "reconcile"
        /\ Len(responses') = Len(batch)
        /\ \A j \in 1..Len(responses') :
              /\ ~Accepted(responses'[j])
              /\ responses'[j].error_message = "XML non valido"
              /\ responses'[j].bda = batch[j].bda

(* C19: a returned value that is not a well-formed document gives one
   parse-error failure per parcel of the batch, nothing is raised, and every
   parcel of the batch is counted Failed and none recorded. *)
C19_IllFormedAllFailed ==
    /\ [][IllFormedStep]_vars
    /\ [](\A doc \in received :
            (pc = "reconcile" /\ IllFormed(doc)) =>
               \A j \in 1..i :
                  /\ Count(result.errors, <<"ERRORE", batch[j].bda, "XML non valido">>) = 1
                  /\ KeyOf(batch_indices[j]) \notin written)

(* C20: entry j of a parsed response has the outcome fields of the j-th
   <Parcel> element and carries the text of its <Bda> child when it has
   one, otherwise the reference of the j-th parcel of the request (none
   when the request has no j-th parcel). *)
C20_PositionalBackfill ==
    \A doc \in received :
       (pc = "parsed" /\ doc.text /\ doc.wellformed /\ doc.entries # <<>>) =>
          /\ Len(responses) = Len(doc.entries)
          /\ \A j \in 1..Len(responses) :
                /\ responses[j].esito = doc.entries[j].esito
                /\ responses[j].numero_spedizione = doc.entries[j].numero_spedizione
                /\ doc.entries[j].bda # {} => responses[j].bda \in doc.entries[j].bda
                /\ (doc.entries[j].bda = {} /\ j <= Len(parcels))
                      => responses[j].bda = parcels[j].bda
                /\ (doc.entries[j].bda = {} /\ j > Len(parcels))
                      => responses[j].bda = ""

C20_Witness ==
    /\ pc = "parsed"
    /\ Len(parcels) = 2
    /\ Len(responses) = 2
    /\ \A doc \in received :
          /\ Len(doc.entries) = 2
          /\ doc.entries[1].bda = {"B9"}
          /\ doc.entries[2].bda = {}
    /\ responses[1].bda = "B9"
    /\ responses[2].bda = "2"

(* C21: the groups are consecutive slices of the parcels left to upload:
   the c-th call carries the c-th slice of GLS_MAX_PARCELS_PER_BATCH rows of
   the list, the list is in row order with each parcel built from the row at
   its position, a run that returns has called once for every slice, and
   the row written for a response is the row of the parcel at the same
   position of the list. *)
C21_ChunkingPreservesOrder ==
    /\ \A c \in 1..Len(calls) :
          calls[c].rows =
             SubSeq(row_indices, (c - 1) * GLS_MAX_PARCELS_PER_BATCH + 1,
                    Min(c * GLS_MAX_PARCELS_PER_BATCH, Len(row_indices)))
    /\ Len(parcels) = Len(row_indices)
    /\ \A p \in 1..Len(row_indices) :
          /\ row_indices[p][2] = rows[row_indices[p][1] + 1]
          /\ parcels[p] \in create_parcel(row_indices[p][2])
          /\ \A q \in 1..Len(row_indices) :
                p < q => row_indices[p][1] < row_indices[q][1]
    /\ pc = "done" =>
          Len(calls) = Ceil(Len(parcels), GLS_MAX_PARCELS_PER_BATCH)
    /\ pc = "save" =>
          LET entry == row_indices[batch_start + i + 1]
          IN /\ KeyOf(entry) \in DOMAIN tracker.data.uploads
             /\ tracker.data.uploads[KeyOf(entry)].row = entry[1]
             /\ tracker.data.uploads[KeyOf(entry)].shipment_id
                   = responses[i + 1].numero_spedizione

C21_Witness ==
    /\ pc = "done"
    /\ Len(rows) = 4
    /\ Len(parcels) = 3
    /\ Len(calls) = 2
    /\ <<calls[2].rows[1][1]>> = <<row_indices[3][1]>>
    /\ result.uploaded = 3

(* C28: when process_file returns its result, uploaded + skipped + failed
   is the total number of rows. *)
C28_Accounting ==
    pc = "done" =>
       result.uploaded + result.skipped + result.failed = result.total

(* C29: the counter of uploads is the number of responses stored in the
   result, every stored response is accepted with a shipment id, the keys
   the run has written are as many as the counter or one fewer, and as
   many as the counter when the run returns. *)
C29_UploadedMatchesStored ==
    /\ result.uploaded = Len(result.responses)
    /\ \A j \in 1..Len(result.responses) : Accepted(result.responses[j])
    /\ Cardinality(written) \in {result.uploaded, result.uploaded - 1}
    /\ pc = "done" =>
          /\ Cardinality(written) = result.uploaded
          /\ written \subseteq DOMAIN load(disk).uploads

C29_Witness ==
    /\ pc = "done"
    /\ result.uploaded = 2
    /\ Cardinality(written) = 2
    /\ result.failed >= 1

(* C30: whenever no write of the file is under way the file holds the
   ledger the tracker has in memory: a mark_uploaded whose _save fails
   leaves the memory as it was, and is_uploaded answers for no key that the
   file lacks. *)
C30_MemoryMatchesFile ==
    (tracker.loaded /\ pc # "save") =>
       /\ tracker.data = load(disk)
       /\ \A j \in 1..Len(rows) :
             is_uploaded(tracker.data, FILE_PATH, j - 1, rows[j]) =>
                RowKey(j) \in DOMAIN load(disk).uploads

(* C22: a row without recipient name or without address is counted Failed
   with "Dati insufficienti" and no call is made for it; every other row,
   whatever else it lacks and however long its fields, gives one parcel to
   upload and no failure. *)
C22_InsufficientData ==
    pc \in {"batch", "attempt", "finalize"} =>
       IF rows[1].ragione_sociale = "" \/ rows[1].indirizzo = ""
       THEN /\ result.failed = 1
            /\ result.errors = <<<<"ERRORE", "0", "Dati insufficienti">>>>
            /\ parcels = <<>>
            /\ calls = <<>>
            /\ pc = "finalize"
       ELSE /\ result.failed = 0
            /\ result.errors = <<>>
            /\ Len(parcels) = 1
            /\ row_indices = <<<<0, rows[1]>>>>
            /\ parcels[1].bda = rows[1].progressivo
            /\ pc = "attempt" => calls[1].rows = row_indices

C22_Witness ==
    /\ pc = "attempt"
    /\ rows[1].ragione_sociale = Name50
    /\ rows[1].cap = ""
    /\ rows[1].citta = ""
    /\ rows[1].provincia = ""
    /\ rows[1].progressivo = ""
    /\ rows[1].indicazioni = Long45
    /\ Len(parcels) = 1
    /\ Len(parcels[1].ragione_sociale) = MAX_RAGIONE_SOCIALE
    /\ parcels[1].zipcode = "00000"

(* C23: add_parcels called with more parcels than a batch may hold ends in
   a client error with the session as it was and no remote call under way;
   with fewer it goes on to the call. *)
C23_FailFastOnOversize ==
    /\ [][(pc \in {"idle", "client_error"} /\ pc' \in {"client_error", "call"}) =>
            IF Len(parcels') > GLS_MAX_PARCELS_PER_BATCH
            THEN pc' = "client_error" /\ client' = client /\ created' = created
            ELSE pc' = "call"]_vars
    /\ [](pc = "client_error" => (~client /\ created = {}))

C23_Witness ==
    /\ pc = "client_error"
    /\ Len(parcels) = GLS_MAX_PARCELS_PER_BATCH + 1
    /\ ~client

(* the first two characters of the provinces of the model, in capitals *)
ProvinceCode(text) ==
    CASE text = "" -> "" [] text = "R" -> "R" [] text = "rm" -> "RM"
      [] text = "Roma" -> "RO"

(* C25: a parcel built from any arguments has the first 35 characters of
   the name, the first 35 of the address, the first 40 of the note and the
   first 2 characters of the province in capitals; shorter texts are kept
   whole and the construction always gives a parcel. *)
C25_ParcelNormalized ==
    pc = "built" =>
       /\ Len(parcels) = 1
       /\ \A a \in parcel_args :
             LET parcel == parcels[1]
             IN /\ Len(parcel.ragione_sociale) <= 35
                /\ parcel.ragione_sociale =
                      SubSeq(a.ragione_sociale, 1, Min(35, Len(a.ragione_sociale)))
                /\ Len(parcel.indirizzo) <= 35
                /\ parcel.indirizzo = SubSeq(a.indirizzo, 1, Min(35, Len(a.indirizzo)))
                /\ Len(parcel.note) <= 40
                /\ parcel.note = SubSeq(a.note, 1, Min(40, Len(a.note)))
                /\ parcel.provincia = ProvinceCode(a.provincia)
                /\ a.ragione_sociale = Name50 =>
                      parcel.ragione_sociale = "01234567890123456789012345678901234"

C25_Witness ==
    /\ pc = "built"
    /\ \E a \in parcel_args :
          /\ a.ragione_sociale = Name50
          /\ a.indirizzo = Address36
          /\ a.note = Note41
          /\ a.provincia = "Roma"
    /\ Len(parcels[1].ragione_sociale) = 35
    /\ parcels[1].indirizzo = "VIA GIUSEPPE GARIBALDI 123 SCALA B "
    /\ Len(parcels[1].note) = 40
    /\ parcels[1].provincia = "RO"

(* the five digits of the postal codes of the model that have at most five
   digits, with or without blanks around and decimal fragment *)
FiveDigits(text) ==
    CASE text = "5" -> "00005" [] text = "100" -> "00100" [] text = "00100" -> "00100"
      [] text = " 123 " -> "00123" [] text = "100.0" -> "00100"
      [] text = "00100.0" -> "00100" [] text = "20100.0" -> "20100"

(* C26: the postal code of a parcel built from at most five digits, with
   or without blanks around them and a decimal fragment after them, is the
   digits padded with zeros to five. *)
C26_PostalCode ==
    pc = "built" =>
       \A a \in parcel_args :
          a.zipcode \in {"5", "100", "00100", " 123 ", "100.0", "00100.0", "20100.0"} =>
             parcels[1].zipcode = FiveDigits(a.zipcode)

(* the constructor has run on the credentials *)
Constructed == pc \in {"idle", "init_error", "call", "client_error"}

(* C27: the constructor of the client, and so of the processor, ends in a
   client error exactly when one of the four fields of the credentials is
   empty, and then no session exists and no remote call has been made. *)
C27_CredentialsChecked ==
    /\ [](Constructed =>
            (pc # "init_error" <=>
               (/\ credentials.sede # ""
                /\ credentials.codice_cliente # ""
                /\ credentials.password # ""
                /\ credentials.codice_contratto # "")))
    /\ [](pc = "init_error" => (~client /\ created = {} /\ calls = <<>>))
    /\ [][pc = "init_error" => pc' = "init_error"]_vars

C27_Witness ==
    /\ pc = "init_error"
    /\ credentials.sede # ""
    /\ credentials.codice_cliente # ""
    /\ credentials.password = ""
    /\ credentials.codice_contratto # ""
    /\ ~client

(* a step of clear_file_uploads, the next state naming its file *)
ClearFileStep == ledger_op'.op = "clear_file" /\ ledger_op'.n = ledger_op.n + 1

(* what a clear of the records in gone does to the ledger and the file;
   logged says whether the history gets its entry *)
ClearedExactly(gone, logged) ==
    LET before == LedgerData
        after == tracker'.data
    IN /\ DOMAIN after.uploads = DOMAIN before.uploads \ gone
       /\ \A key \in DOMAIN after.uploads : after.uploads[key] = before.uploads[key]
       /\ IF logged
          THEN /\ Len(after.history) = Len(before.history) + 1
               /\ SubSeq(after.history, 1, Len(before.history)) = before.history
               /\ Last(after.history).action = "clear_file"
               /\ Last(after.history).count = Cardinality(gone)
          ELSE after.history = before.history
       /\ disk' = CompleteFile(after)

(* C24: a clear for a source file removes the records made for that file
   and no other, adds to the history a clear entry with their number, and
   writes the ledger file. *)
C24_ClearFile ==
    [][ClearFileStep =>
         ClearedExactly({key \in DOMAIN LedgerData.uploads :
                           LedgerData.uploads[key].file = Name(ledger_op'.file)},
                        TRUE)]_vars

(* C24 as the code has it: the records removed are those whose key starts
   with the stem of the file, whatever the extension of the file they were
   made for, and the history gets its entry when at least one is removed. *)
C24_ClearFileByStem ==
    [][ClearFileStep =>
         LET gone == {key \in DOMAIN LedgerData.uploads :
                        key[1] = Stem(ledger_op'.file)}
         IN ClearedExactly(gone, gone # {})]_vars

C24_Witness ==
    /\ ledger_op.op = "clear_file"
    /\ ledger_op.file = "dir/lista.xlsx"
    /\ tracker.data.history # <<>>
    /\ Last(tracker.data.history).action = "clear_file"
    /\ Last(tracker.data.history).count = 2
    /\ Cardinality(DOMAIN tracker.data.uploads) = 1
    /\ \A key \in DOMAIN tracker.data.uploads :
          tracker.data.uploads[key].file = "altro.xlsx"
    /\ disk = CompleteFile(tracker.data)

(* a failed attempt is followed by a sleep *)
SleepStep == Len(sleeps') > Len(sleeps)

(* the sleep follows failed attempt number attempt, which is not the last,
   lasts GLS_RETRY_DELAY * 2^attempt and leads to the next attempt *)
SleepIsBackoff ==
    /\ pc \in AttemptPcs
    /\ pc' = pc
    /\ attempt < GLS_RETRY_ATTEMPTS - 1
    /\ attempt' = attempt + 1
    /\ sleeps' = Append(sleeps, GLS_RETRY_DELAY * (2 ^ attempt))

RECURSIVE SumSeq(_)
SumSeq(seq) == IF seq = <<>> THEN 0 ELSE Head(seq) + SumSeq(Tail(seq))

(* C33: the client sleeps only after a failed attempt that is not the
   last, for GLS_RETRY_DELAY * 2^a seconds after attempt a: 2 s, then 4 s;
   an operation on its last attempt has slept 6 s and sleeps no more. *)
C33_Backoff ==
    /\ [](/\ Len(sleeps) = attempt
          /\ sleeps \in {<<>>, <<2>>, <<2, 4>>}
          /\ attempt = GLS_RETRY_ATTEMPTS - 1 => SumSeq(sleeps) = 6)
    /\ [][SleepStep => SleepIsBackoff]_vars
    /\ [][(pc \in AttemptPcs /\ pc' # pc) => ~SleepStep]_vars

C33_Witness ==
    /\ pc = "attempt"
    /\ attempt = GLS_RETRY_ATTEMPTS - 1
    /\ sleeps = <<2, 4>>

(* Client(GLS_ENDPOINT) raised for the group in hand *)
ConnectFailStep ==
    /\ Len(calls') = Len(calls) + 1
    /\ Last(calls').outcome = "Impossibile connettersi a GLS"

(* the failed creation is not retried and leaves no session *)
ConnectFailLeavesNoSession ==
    /\ ~client
    /\ ~client'
    /\ sessions' = 0
    /\ sleeps' = <<>>
    /\ result'.failed = result.failed + Len(batch)
    /\ pc' \in {"batch", "finalize"}

(* C34: a client is constructed without session; the first remote
   operation creates it; a client that has a session keeps it, so that at
   most one is created for a client; a creation that fails is not retried
   and leaves the client without session for the next operation to try. *)
C34_LazySession ==
    /\ [](sessions <= 1 /\ (client <=> sessions = 1))
    /\ [][(pc = "dead" /\ pc' = "idle") => (~client' /\ sessions' = 0)]_vars
    /\ [][(client /\ pc' # "dead") => (client' /\ sessions' = sessions)]_vars
    /\ [][ConnectFailStep => ConnectFailLeavesNoSession]_vars

C34_Witness ==
    /\ Len(calls) = 2
    /\ calls[1].outcome = "Impossibile connettersi a GLS"
    /\ calls[2].outcome = "pending"
    /\ pc = "attempt"
    /\ client
    /\ sessions = 1

(* the counts reported so far never decrease and never exceed the total *)
ReportsInOrder ==
    /\ \A j \in 1..Len(reports) : reports[j] <= result.total
    /\ \A j \in 1..Len(reports) : \A k \in 1..Len(reports) :
          j < k => reports[j] <= reports[k]

(* while a group is in hand the last count reported holds the rows of
   every group before it *)
ReportedBeforeGroup ==
    pc \in {"batch", "attempt", "reconcile", "save"} =>
       /\ reports # <<>>
       /\ Last(reports) >= batch_start

(* C36: when a group has been reconciled a report whose count holds the
   rows of every group so far is made before the next group is submitted;
   the counts reported never decrease and never exceed the total, and the
   last report of a run that has ended is the total. *)
C36_Progress ==
    /\ ReportsInOrder
    /\ ReportedBeforeGroup
    /\ pc \in {"done", "raised"} => (reports # <<>> /\ Last(reports) = result.total)

(* the same for the runs that return their result *)
C36_ProgressOfReturningRun ==
    /\ ReportsInOrder
    /\ ReportedBeforeGroup
    /\ pc = "done" => (reports # <<>> /\ Last(reports) = result.total)

(* an operation of the tracker that writes the ledger has been called *)
LedgerOpStep == ledger_op'.n = ledger_op.n + 1

(* the tracker is opened on the directory *)
OpenStep == pc = "dead" /\ pc' # "dead"

(* the open yields the empty ledger, in which no key is uploaded *)
OpensEmpty ==
    /\ pc' = "ledger"
    /\ tracker'.loaded
    /\ tracker'.data = EmptyLedger
    /\ \A f \in LedgerFiles : \A row_index \in 0..1 :
          ~is_uploaded(tracker'.data, f, row_index,
                       extract_row_data("ROSSI SRL", row_index + 1))

(* C31: opening the tracker on a directory whose ledger file is missing,
   cannot be read or is no valid JSON raises nothing and yields the empty
   ledger, where no key is uploaded; the next operation that writes leaves
   in the file the ledger the tracker has in memory and nothing else. *)
C31_OpenNeverRaises ==
    /\ [][(OpenStep /\ disk.state # "complete") => OpensEmpty]_vars
    /\ [][LedgerOpStep => disk' = CompleteFile(tracker'.data)]_vars

(* C32: a record call of either instance writes the file from the copy of
   the ledger that instance has in memory, whatever the file holds. *)
OwnCopyWritten ==
    /\ ledger_op'.op = "mark_uploaded" =>
          /\ disk' = CompleteFile(tracker'.data)
          /\ \E row_index \in 0..3 :
                tracker'.data = mark_uploaded_data(tracker.data, ledger_op'.file, row_index,
                                   extract_row_data("ROSSI SRL", row_index + 1), "S1", now)
    /\ ledger_op'.op = "other_mark_uploaded" =>
          /\ disk' = CompleteFile(other'.data)
          /\ \E row_index \in 0..3 :
                other'.data = mark_uploaded_data(other.data, ledger_op'.file, row_index,
                                 extract_row_data("ROSSI SRL", row_index + 1), "S2", now)

C32_WholeFileRewritten == [][LedgerOpStep => OwnCopyWritten]_vars

(* a record the first instance persisted is absent from the file, the
   second instance having recorded after it *)
C32_Witness ==
    /\ tracker.loaded
    /\ other.loaded
    /\ disk = CompleteFile(other.data)
    /\ \E key \in DOMAIN tracker.data.uploads :
          /\ tracker.data.uploads[key].shipment_id = "S1"
          /\ key \notin DOMAIN load(disk).uploads

(* the history after the operation starts with the history before it, and
   a record or a clear that removes something adds one entry *)
HistoryExtended ==
    LET before == tracker.data.history
        after == tracker'.data.history
    IN /\ Len(after) >= Len(before)
       /\ SubSeq(after, 1, Len(before)) = before
       /\ (ledger_op'.op = "mark_uploaded" \/ tracker.data.uploads # tracker'.data.uploads)
             => Len(after) = Len(before) + 1

(* C38: every operation of the tracker keeps the history it finds as a
   prefix of the new history; a record and a clear that removes records
   add one entry. *)
C38_HistoryAppendOnly == [][(LedgerOpStep /\ pc = "ledger") => HistoryExtended]_vars

(* C39: get_upload_history(limit) returns the min(limit, length) most
   recent entries of the history, the most recent first. *)
C39_RecentHistory ==
    returned.call = "get_upload_history" =>
       /\ Len(returned.value) = Min(returned.limit, Len(returned.history))
       /\ \A j \in 1..Len(returned.value) :
             returned.value[j] = returned.history[Len(returned.history) - j + 1]

(* the name of a recipient and the street of the model without regard to
   the case of the letters *)
IgnoringCase(text) ==
    CASE text \in {"ROSSI SRL", "rossi srl", "Rossi Srl"} -> "rossi"
      [] text = "BIANCHI SPA" -> "bianchi"
      [] text \in {"VIA ROMA 1", "via roma 1"} -> "roma"

(* the two rows agree in what the key is made of *)
SameKeyInputs(a, b) ==
    /\ Stem(a.file_path) = Stem(b.file_path)
    /\ a.row_index = b.row_index
    /\ IgnoringCase(a.row_data.ragione_sociale) = IgnoringCase(b.row_data.ragione_sociale)
    /\ IgnoringCase(a.row_data.indirizzo) = IgnoringCase(b.row_data.indirizzo)
    /\ a.row_data.cap = b.row_data.cap

HexDigits == {"0", "1", "2", "3", "4", "5", "6", "7", "8", "9",
              "a", "b", "c", "d", "e", "f"}

(* the key is <stem>:<rowIndex>:<8 hex chars> for the input *)
KeyFormat(key, a) ==
    LET start == Stem(a.file_path) \o ":" \o ToString(a.row_index) \o ":"
    IN /\ Len(key) = Len(start) + 8
       /\ SubSeq(key, 1, Len(start)) = start
       /\ \A j \in (Len(start) + 1)..Len(key) : SubSeq(key, j, j) \in HexDigits

(* C35: two rows with the same file stem, the same row index and the same
   recipient name, street and postal code up to the case of the letters
   get the same key, whatever else differs; two rows of files of one stem
   with different row indices get different keys; the key is the stem, the
   row index and 8 hexadecimal characters, joined by colons. *)
C35_KeyFunction ==
    returned.call = "_generate_row_key" =>
       LET a == returned.first
           b == returned.second
       IN /\ SameKeyInputs(a, b) => returned.value[1] = returned.value[2]
          /\ (Stem(a.file_path) = Stem(b.file_path) /\ a.row_index # b.row_index)
                => returned.value[1] # returned.value[2]
          /\ KeyFormat(returned.value[1], a)
          /\ KeyFormat(returned.value[2], b)

C35_Witness ==
    /\ returned.call = "_generate_row_key"
    /\ returned.first.file_path = "dir/lista.xlsx"
    /\ returned.second.file_path = "dir/lista.xls"
    /\ returned.first.row_index = 1
    /\ returned.second.row_index = 1
    /\ returned.first.row_data.ragione_sociale = "ROSSI SRL"
    /\ returned.second.row_data.ragione_sociale = "Rossi Srl"
    /\ returned.first.row_data.citta # returned.second.row_data.citta
    /\ returned.value = <<"lista:1:f28e640f", "lista:1:f28e640f">>

(* the texts of the children of element with the tag *)
ChildTexts(element, tag) ==
    {element.children[j][2] :
        j \in {k \in 1..Len(element.children) : element.children[k][1] = tag}}

(* the element has one child with the tag and the text if the text is not
   empty, and none with the tag if it is *)
FieldEmitted(element, tag, text) ==
    /\ ChildTexts(element, tag) = IF text # "" THEN {text} ELSE {}
    /\ Cardinality({k \in 1..Len(element.children) : element.children[k][1] = tag})
          = IF text # "" THEN 1 ELSE 0

PayloadTags == {"RagioneSociale", "Indirizzo", "Localita", "Zipcode", "Provincia",
                "Colli", "PesoReale", "Note", "Email", "Cellulare", "BDA",
                "Contrassegno", "ImportoAssicurato"}

(* the amounts of the model with two decimals *)
TwoDecimals(hundredths) ==
    CASE hundredths = 0 -> "0.00" [] hundredths = 350 -> "3.50"
      [] hundredths = 1250 -> "12.50" [] hundredths = 50005 -> "500.05"

(* the Parcel element holds the fields of the parcel that are not empty *)
ParcelElementOf(element, parcel) ==
    /\ element.tag = "Parcel"
    /\ \A k \in 1..Len(element.children) :
          element.children[k][1] \in PayloadTags /\ element.children[k][2] # ""
    /\ FieldEmitted(element, "RagioneSociale", parcel.ragione_sociale)
    /\ FieldEmitted(element, "Indirizzo", parcel.indirizzo)
    /\ FieldEmitted(element, "Localita", parcel.localita)
    /\ FieldEmitted(element, "Zipcode", parcel.zipcode)
    /\ FieldEmitted(element, "Provincia", parcel.provincia)
    /\ FieldEmitted(element, "Colli", IF parcel.colli = 0 THEN "0" ELSE "2")
    /\ FieldEmitted(element, "PesoReale", TwoDecimals(parcel.peso))
    /\ FieldEmitted(element, "Note", parcel.note)
    /\ FieldEmitted(element, "Email", parcel.email)
    /\ FieldEmitted(element, "Cellulare", parcel.cellulare)
    /\ FieldEmitted(element, "BDA", parcel.bda)
    /\ FieldEmitted(element, "Contrassegno",
                    IF parcel.contrassegno > 0 THEN TwoDecimals(parcel.contrassegno) ELSE "")
    /\ FieldEmitted(element, "ImportoAssicurato",
                    IF parcel.importo_assicurato > 0
                    THEN TwoDecimals(parcel.importo_assicurato) ELSE "")

(* C37: the payload has one Parcel child for each parcel of the batch, in
   the order of the batch, and each holds one element for every field of
   its parcel whose value is not empty, the two amounts when greater than
   0, and no element that is empty. *)
C37_Payload ==
    returned.call = "_build_parcels_xml" =>
       /\ returned.value.tag = "Info"
       /\ Len(returned.value.children) = Len(returned.parcels)
       /\ \A j \in 1..Len(returned.parcels) :
             ParcelElementOf(returned.value.children[j], returned.parcels[j])

C37_Witness ==
    /\ returned.call = "_build_parcels_xml"
    /\ Len(returned.parcels) = 2
    /\ returned.parcels[1].email = ""
    /\ returned.parcels[1].contrassegno = 0
    /\ returned.parcels[1].importo_assicurato > 0
    /\ returned.parcels[2].email # ""
    /\ returned.parcels[2].contrassegno > 0
    /\ ChildTexts(returned.value.children[1], "Email") = {}
    /\ ChildTexts(returned.value.children[1], "Contrassegno") = {}
    /\ ChildTexts(returned.value.children[1], "ImportoAssicurato") = {"500.05"}
    /\ ChildTexts(returned.value.children[2], "Email") = {"info@rossi.it"}
    /\ ChildTexts(returned.value.children[2], "Contrassegno") = {"12.50"}
====
